---- MODULE Spec2Model ----
(***************************************************************************)
(* State-machine model of the batch pipeline scripts:                      *)
(*   scripts/fetch_technical_analysis.py  (thread pool, shared counters)   *)
(*   scripts/fetch_company_vietcap.py     (thread pool, main-side counts)  *)
(*   scripts/convert_to_arrow.py          (normalize + partition by year)  *)
(*   scripts/convert_ratios_to_arrow.py   (normalize ratios, one table)    *)
(* Spec runs one of the two fetch scripts; SpecConvert runs one of the two *)
(* converters.                                                             *)
(***************************************************************************)
EXTENDS Integers, Sequences, FiniteSets, TLC

(* ------------------------------ bounds --------------------------------- *)

\* Longest instrument listing the listing source returns.
MaxListing == 2

\* Worker threads of the pool in the model; the scripts use max_workers = 20,
\* scaled down so that the pool limit binds with MaxListing + 1 units.
PoolSize == 2

\* Most input documents a converter run finds.
MaxDocs == 2

\* Most records a converter run accumulates.
MaxRecords == 2

\* Symbols a listing is drawn from.
Symbols == {"AAA", "BBB"}

VARIABLES
    script,          \* which script's main() is running
    pc,              \* position of the main thread
    exit_code,       \* process exit status once main has ended
    tickers,         \* tickers / all_stocks: the submitted instruments
    upc,             \* per unit: position of the worker running it
    price_data,      \* per unit: what the unit's fetch returned
    reg,             \* per unit: value loaded by the pending `+= 1`
    progress_lock,   \* 0 when free, else the unit holding it
    processed_count, \* fetch_technical_analysis.processed_count
    success_count,   \* success_count of the running script
    fail_count,      \* fetch_company_vietcap.main fail_count
    collected,       \* futures the main loop has taken from as_completed
    all_dfs,         \* fetch_technical_analysis.main all_dfs (units, in order)
    arrow_file,      \* data/technical_analysis.arrow: <<>> absent, else <<rows>>
    writes,          \* calls of save_to_arrow so far, with the caller of each
    company_files,   \* data/companies/<symbol>.json: symbol -> unit whose details it holds
    collect_raised,  \* units whose result raised while main handled it
    summary          \* the counts printed in the run summary, by label

fetch_vars == <<script, pc, exit_code, tickers, upc, price_data, reg,
                progress_lock, processed_count, success_count, fail_count,
                collected, all_dfs, arrow_file, writes, company_files,
                collect_raised, summary>>

VARIABLES
    total_files,     \* len(json_files) of the converter run
    file_idx,        \* input documents the loop has finished with
    cur_ticker,      \* ticker entry of the document last taken, as loaded
    cur_pos,         \* place of the last period object taken in the document
    doc_added,       \* records the document being processed has appended
    data_by_type,    \* convert_to_arrow: report type -> list of records
    records,         \* convert_ratios_to_arrow: list of records
    out_files,       \* bulk files written: path -> rows
    metadata_json,   \* whether metadata.json has been written
    doc_outcome,     \* how the document last taken ended ("open" while in it)
    no_ticker_docs   \* documents passed over for lacking their identifier

conv_vars == <<total_files, file_idx, cur_ticker, cur_pos, doc_added, data_by_type,
               records, out_files, metadata_json, doc_outcome, no_ticker_docs>>

VARIABLES
    faults,          \* the kinds of failure the run's environment produces
    has_pandas_ta,   \* fetch_technical_analysis.HAS_PANDAS_TA
    ind_set,         \* per unit: which indicator computation produced its frame
    log,             \* lines printed about the indicator computation: line -> times printed
    progress         \* the unit counts of the progress lines printed, in order

ind_vars == <<faults, has_pandas_ta, ind_set, log, progress>>

VARIABLES
    nz_pc,           \* normalizer applied to one element: "input" or "emitted"
    nz_input,        \* the period object / financial_stats item handed in
    nz_result        \* what the normalizer gave for it

norm_vars == <<nz_pc, nz_input, nz_result>>

VARIABLES
    candles,         \* the candle list of one ticker, as fetched
    window,          \* rolling window of the moving average
    closes,          \* df['close'] after sort_index
    bar,             \* bars the rolling pass has consumed
    roll_sum,        \* running sum of the rolling window
    roll_nobs,       \* observations in the rolling window
    sma_out          \* the SMA column built so far

sma_vars == <<candles, window, closes, bar, roll_sum, roll_nobs, sma_out>>

VARIABLES
    df               \* the frame of one ticker: column name -> column

frame_vars == <<df>>

VARIABLES
    ratios_json,     \* number of *.json files in frontend/api_data/ratios
    cr_result,       \* what convert_ratios_to_arrow() returned, "none" before
    history          \* the scripts run before the current one, with their results

dir_vars == <<ratios_json, cr_result, history>>

VARIABLES
    fx,              \* per exchange: the running call of fetch_exchange_data
    fh               \* fetch_funds_hybrid.main: its locals and its position

loop_vars == <<fx, fh>>

\* State of the operations that are checked on their own, and of the
\* directory shared by the ratios scripts.
side_vars == <<frame_vars, dir_vars, loop_vars>>

calc_vars == <<norm_vars, sma_vars, side_vars>>

vars == <<fetch_vars, conv_vars, ind_vars, calc_vars>>

(* ------------------------------ helpers -------------------------------- *)

\* The units submitted to the pool: one future per entry of tickers.
Units == DOMAIN upc

\* Sequences over S of length 0..n.
RECURSIVE SeqsUpTo(_, _)
SeqsUpTo(S, n) ==
    IF n = 0 THEN {<<>>}
    ELSE LET shorter == SeqsUpTo(S, n - 1)
         IN  shorter \cup {Append(s, x) : s \in {t \in shorter : Len(t) = n - 1}, x \in S}

Range(s) == {s[i] : i \in DOMAIN s}

\* Worker positions in which the unit occupies a pool thread.
RunningPcs == {"fetch", "f_lock", "f_load", "f_store", "f_unlock",
               "s_lock", "s_loadp", "s_storep", "s_loads", "s_stores", "s_unlock"}

\* Worker positions in which the unit's future is done.
DonePcs == {"ret_none", "ret_df", "ret_details", "raised"}

Running == {u \in Units : upc[u] \in RunningPcs}

Finished == {u \in Units : upc[u] \in DonePcs}

(* ----------------------------- JSON values ----------------------------- *)

\* A JSON value as json.load returns it: type tag t, number n, text s.
Null == [t |-> "null", n |-> 0, s |-> ""]

\* The key is absent from its object.
Missing == [t |-> "missing", n |-> 0, s |-> ""]

IntV(k) == [t |-> "int", n |-> k, s |-> ""]

FloatV(k) == [t |-> "float", n |-> k, s |-> ""]

BoolV(b) == [t |-> "bool", n |-> IF b THEN 1 ELSE 0, s |-> ""]

StrV(x) == [t |-> "str", n |-> 0, s |-> x]

\* An integer too large for a float: float() raises OverflowError on it.
BigInt == [t |-> "bigint", n |-> 0, s |-> ""]

\* A JSON array and a JSON object (their contents play no part).
ListV == [t |-> "list", n |-> 0, s |-> ""]

DictV == [t |-> "dict", n |-> 0, s |-> ""]

\* dict.get(key): None when the key is absent.
Get(v) == IF v = Missing THEN Null ELSE v

\* Python truth value, as tested by `if not ticker` and `if period`.
Truthy(v) ==
    CASE v.t \in {"null", "missing"} -> FALSE
      [] v.t = "str" -> v.s # ""
      [] v.t \in {"int", "float", "bool"} -> v.n # 0
      [] OTHER -> TRUE

\* str(value) for the values a period can hold.
PyStr(v) ==
    CASE v.t = "str" -> v.s
      [] v.t = "int" -> ToString(v.n)
      [] v.t = "float" -> ToString(v.n) \o ".0"
      [] v.t = "bool" -> IF v.n = 1 THEN "True" ELSE "False"
      [] v.t = "null" -> "None"

Min(a, b) == IF a <= b THEN a ELSE b

(* ------------------ convert_to_arrow: record normalizer ----------------- *)

\* The report types, in the order the loops of lines 114 and 204 take them.
ReportTypes == <<"BALANCE_SHEET", "INCOME_STATEMENT", "CASH_FLOW", "NOTE">>

\* The keys skipped in a yearly object (lines 145-146).
DenyYearly == {"organCode", "ticker", "createDate", "updateDate", "yearReport",
               "serverDateTime", "status", "message", "code", "msg", "exception",
               "successful"}

\* The keys skipped in a quarterly object (lines 174-175).
DenyQuarterly == {"organCode", "ticker", "createDate", "updateDate", "quarterReport",
                  "serverDateTime", "status", "message", "code", "msg", "exception",
                  "successful"}

\* `value is not None and isinstance(value, (int, float))`; bool is an int.
IsNumeric(v) == v.t \in {"int", "float", "bool", "bigint"}

\* The items of one period object in iteration order: its period key, when
\* present, and its other fields.
ItemsOf(obj) ==
    (IF obj.period = Missing THEN <<>>
     ELSE << <<IF obj.kind = "years" THEN "yearReport" ELSE "quarterReport",
               obj.period>> >>)
    \o obj.fields

\* A record that carries the raw value and no period.
FlatRecord_Raw(ticker, period, field, value) ==
    [ticker |-> ticker, field |-> field, value |-> value]

\* Lines 151-156 / 180-185: the record appended for one numeric field.
FlatRecord(ticker, period, field, value) ==
    [ticker |-> ticker,
     period |-> PyStr(period),
     field |-> field,
     value |-> FloatV(value.n)]

\* Lines 143-157 / 172-186: the records one period object appends, and
\* whether float(value) raised on the way (the records before it stay).
RECURSIVE EmitFields(_, _, _, _)
EmitFields(ticker, period, deny, items) ==
    IF items = <<>> THEN [recs |-> <<>>, raised |-> FALSE]
    ELSE LET field == Head(items)[1]
             value == Head(items)[2]
         IN  IF field \in deny \/ ~IsNumeric(value)
             THEN EmitFields(ticker, period, deny, Tail(items))
             ELSE IF value.t = "bigint"
             THEN [recs |-> <<>>, raised |-> TRUE]
             ELSE LET rest == EmitFields(ticker, period, deny, Tail(items))
                  IN  [recs |-> <<FlatRecord(ticker, period, field, value)>> \o rest.recs,
                       raised |-> rest.raised]

\* Lines 133-157 and 162-186 for one element of `years` / `quarters`: a
\* non-dict element or one without its period key is passed over.
ProcessPeriodObject(ticker, obj) ==
    IF ~obj.is_dict \/ Get(obj.period) = Null
    THEN [recs |-> <<>>, raised |-> FALSE]
    ELSE EmitFields(ticker, Get(obj.period),
                    IF obj.kind = "years" THEN DenyYearly ELSE DenyQuarterly,
                    ItemsOf(obj))

\* Place of a period object in the document's processing order: report types
\* in the order of line 114, `years` before `quarters`.
RtIndex(rt) == CHOOSE i \in DOMAIN ReportTypes : ReportTypes[i] = rt

Pos(obj) == 2 * RtIndex(obj.rt) + (IF obj.kind = "years" THEN 0 ELSE 1)

(* ------------------- convert_to_arrow: partition builder ---------------- *)

\* A year key that is the whole period string.
YearOf_WholePeriod(period) == period

\* Line 217: `year = period[:4]`.
YearOf(period) == SubSeq(period, 1, Min(4, Len(period)))

\* A grouping in which a year's list holds only the last record seen.
RECURSIVE GroupByYear_KeepsLast(_)
GroupByYear_KeepsLast(recs) ==
    IF recs = <<>> THEN <<>>
    ELSE LET init == GroupByYear_KeepsLast(SubSeq(recs, 1, Len(recs) - 1))
             record == recs[Len(recs)]
             year == SubSeq(record.period, 1, Min(4, Len(record.period)))
         IN  IF record.period = "" THEN init
             ELSE (year :> <<record>>) @@ init

\* Lines 212-218: group the records by year; a record whose period is empty
\* is put in no group.
RECURSIVE GroupByYear(_)
GroupByYear(recs) ==
    IF recs = <<>> THEN <<>>
    ELSE LET init == GroupByYear(SubSeq(recs, 1, Len(recs) - 1))
             record == recs[Len(recs)]
             year == YearOf(record.period)
         IN  IF record.period = "" THEN init
             ELSE IF year \in DOMAIN init
             THEN [init EXCEPT ![year] = Append(@, record)]
             ELSE (year :> <<record>>) @@ init

\* pa.Table.from_pylist (line 233) raises unless each column has one type;
\* ticker is the only column whose values can differ in type.
TableCreatable(rows) == \A i, j \in DOMAIN rows : rows[i].ticker.t = rows[j].ticker.t

\* pa.Table.from_pylist(rows) without a schema: the columns are the keys of
\* the first row; a row without one of them gets null there, and a key the
\* first row lacks is left out. The table is held as its rows, which is what
\* feather.write_feather stores and feather.read_table gives back.
FromPylist(rows) ==
    [i \in DOMAIN rows |->
        [c \in DOMAIN rows[1] |-> IF c \in DOMAIN rows[i] THEN rows[i][c] ELSE Null]]

\* Lines 204-253 for one report type: the year files written.
WritePartitions(rt, recs) ==
    LET records_by_year == GroupByYear(recs)
        written == {y \in DOMAIN records_by_year : TableCreatable(records_by_year[y])}
    IN  [path \in {<<rt, y>> : y \in written} |-> FromPylist(records_by_year[path[2]])]

(* --------------- convert_ratios_to_arrow: record normalizer ------------ *)

\* dict.get(key, default).
GetOr(v, default) == IF v = Missing THEN default ELSE v

Digits == <<"0", "1", "2", "3", "4", "5", "6", "7", "8", "9">>

IsDigit(c) == \E d \in DOMAIN Digits : Digits[d] = c

DigitVal(c) == (CHOOSE d \in DOMAIN Digits : Digits[d] = c) - 1

IsDigits(x) == Len(x) > 0 /\ \A i \in 1..Len(x) : IsDigit(SubSeq(x, i, i))

RECURSIVE ParseNat(_)
ParseNat(x) ==
    IF Len(x) = 0 THEN 0
    ELSE 10 * ParseNat(SubSeq(x, 1, Len(x) - 1)) + DigitVal(SubSeq(x, Len(x), Len(x)))

\* int(value): the number, or the exception raised.
PyInt(v) ==
    CASE v.t \in {"int", "float", "bool", "bigint"} -> [ok |-> TRUE, n |-> v.n, exc |-> ""]
      [] v.t = "str" /\ IsDigits(v.s) -> [ok |-> TRUE, n |-> ParseNat(v.s), exc |-> ""]
      [] v.t = "str" -> [ok |-> FALSE, n |-> 0, exc |-> "ValueError"]
      [] OTHER -> [ok |-> FALSE, n |-> 0, exc |-> "TypeError"]

\* float(value): the number, or the exception raised.
PyFloat(v) ==
    CASE v.t \in {"int", "float", "bool"} -> [ok |-> TRUE, n |-> v.n, exc |-> ""]
      [] v.t = "str" /\ IsDigits(v.s) -> [ok |-> TRUE, n |-> ParseNat(v.s), exc |-> ""]
      [] v.t = "str" -> [ok |-> FALSE, n |-> 0, exc |-> "ValueError"]
      [] v.t = "bigint" -> [ok |-> FALSE, n |-> 0, exc |-> "OverflowError"]
      [] OTHER -> [ok |-> FALSE, n |-> 0, exc |-> "TypeError"]

\* Line 60.
exclude_keys == {"year", "quarter", "ratioType", "ticker", "organCode", "id"}

\* Lines 71-92.
key_map ==
    [marketCap |-> "market_cap", pe |-> "pe", pb |-> "pb", roe |-> "roe",
     roa |-> "roa", evToEbitda |-> "ev_ebitda", dividendYield |-> "dividend_yield",
     afterTaxProfitMargin |-> "net_margin", grossMargin |-> "gross_margin",
     debtToEquity |-> "debt_to_equity", currentRatio |-> "current_ratio",
     quickRatio |-> "quick_ratio", priceToCashFlow |-> "price_to_cash_flow",
     roic |-> "roic", assetTurnover |-> "asset_turnover", ebitMargin |-> "ebit_margin",
     preTaxProfitMargin |-> "pre_tax_margin", inventoryTurnover |-> "inventory_turnover",
     receivablesTurnover |-> "receivables_turnover"]

\* Line 94: key_map.get(key, key).
FinalKey(key) == IF key \in DOMAIN key_map THEN key_map[key] ELSE key

\* The (key, value) pairs of a financial_stats item in iteration order.
PairsOf(item) ==
    (IF item.year = Missing THEN <<>> ELSE << <<"year", item.year>> >>)
    \o (IF item.quarter = Missing THEN <<>> ELSE << <<"quarter", item.quarter>> >>)
    \o (IF item.ratioType = Missing THEN <<>> ELSE << <<"ratioType", item.ratioType>> >>)
    \o item.metrics

\* Lines 62-105: copy the item's other fields into the record. ValueError and
\* TypeError of float() pass the field over; any other exception leaves the
\* loop.
RECURSIVE AddMetrics(_, _)
AddMetrics(record, pairs) ==
    IF pairs = <<>> THEN [rec |-> record, raised |-> FALSE]
    ELSE LET key == Head(pairs)[1]
             value == Head(pairs)[2]
             f == PyFloat(value)
         IN  IF key \in exclude_keys
             THEN AddMetrics(record, Tail(pairs))
             ELSE IF value = Null \/ value = StrV("")
             THEN AddMetrics((FinalKey(key) :> FloatV(0)) @@ record, Tail(pairs))
             ELSE IF f.ok
             THEN AddMetrics((FinalKey(key) :> FloatV(f.n)) @@ record, Tail(pairs))
             ELSE IF f.exc \in {"ValueError", "TypeError"}
             THEN AddMetrics(record, Tail(pairs))
             ELSE [rec |-> record, raised |-> TRUE]

\* Lines 49-107 for one item of financial_stats: the record appended, or
\* raised when item.get, int() or float() raised out of the item.
RatioRecord(ticker, item) ==
    IF ~item.is_dict THEN [rec |-> <<>>, raised |-> TRUE]
    ELSE LET q == PyInt(GetOr(item.quarter, IntV(0)))
         IN  IF ~q.ok THEN [rec |-> <<>>, raised |-> TRUE]
             ELSE AddMetrics(("ticker" :> ticker)
                                @@ ("year" :> StrV(PyStr(GetOr(item.year, StrV("")))))
                                @@ ("quarter" :> IntV(q.n))
                                @@ ("ratio_type" :> GetOr(item.ratioType, StrV(""))),
                             PairsOf(item))

\* pa.Table.from_pylist (line 120) raises unless each column has one type.
RatioTableCreatable(rows) ==
    \A i, j \in DOMAIN rows :
        /\ rows[i]["ticker"].t = rows[j]["ticker"].t
        /\ rows[i]["ratio_type"].t = rows[j]["ratio_type"].t

\* The converters' state before main starts.
ConvertStart ==
    /\ total_files = 0
    /\ file_idx = 0
    /\ cur_ticker = Null
    /\ cur_pos = 0
    /\ doc_added = 0
    /\ data_by_type = [rt \in Range(ReportTypes) |-> <<>>]
    /\ records = <<>>
    /\ out_files = <<>>
    /\ metadata_json = FALSE
    /\ doc_outcome = "none"
    /\ no_ticker_docs = 0

(* ------------------------------- Init ---------------------------------- *)

\* The single-element normalizer at rest.
NormIdle ==
    /\ nz_pc = "idle"
    /\ nz_input = <<>>
    /\ nz_result = <<>>

\* The rolling pass at rest.
SmaIdle ==
    /\ candles = <<>>
    /\ window = 0
    /\ closes = <<>>
    /\ bar = 0
    /\ roll_sum = 0
    /\ roll_nobs = 0
    /\ sma_out = <<>>

\* No frame has been built.
FrameIdle == df = <<>>

\* No ratios document is on disk and no ratios script has run.
DirIdle ==
    /\ ratios_json = 0
    /\ cr_result = "none"
    /\ history = <<>>

\* No retry loop and no fund loop is running.
LoopIdle == fx = <<>> /\ fh = <<>>

SideIdle == FrameIdle /\ DirIdle /\ LoopIdle

CalcIdle == NormIdle /\ SmaIdle /\ SideIdle

\* No indicator computation has run.
IndIdle ==
    /\ faults = {}
    /\ has_pandas_ta = FALSE
    /\ ind_set = <<>>
    /\ log = [m \in {} |-> 0]
    /\ progress = <<>>

\* The fetch scripts' state before main starts.
FetchStart ==
    /\ tickers = <<>>
    /\ upc = <<>>
    /\ price_data = <<>>
    /\ reg = <<>>
    /\ progress_lock = 0
    /\ processed_count = 0
    /\ success_count = 0
    /\ fail_count = 0
    /\ collected = {}
    /\ all_dfs = <<>>
    /\ arrow_file = <<>>
    /\ writes = <<>>
    /\ company_files = <<>>
    /\ collect_raised = {}
    /\ summary = <<>>

\* Lines 24-29: importing pandas_ta sets HAS_PANDAS_TA; a failed import
\* prints its notice once, before main runs.
ImportNotice == "pandas_ta not found. Will use manual calculation fallback."

\* The lines process_ticker prints about the indicator computation (lines
\* 276 and 194).
LibraryFailedLine == "pandas_ta calculation failed, using manual calculation..."

ManualFailedLine == "Manual calculation failed"

LogLines == {ImportNotice, LibraryFailedLine, ManualFailedLine}

ImportPandasTa(importable) ==
    /\ has_pandas_ta \in importable
    /\ ind_set = <<>>
    /\ log = [m \in LogLines |-> IF m = ImportNotice /\ ~has_pandas_ta THEN 1 ELSE 0]
    /\ progress = <<>>

\* A fetch run in which the upstream API fails at will and pandas_ta works.
InitFetch ==
    /\ script \in {"fetch_technical_analysis", "fetch_company_vietcap"}
    /\ pc = "listing"
    /\ exit_code = -1
    /\ FetchStart
    /\ ConvertStart
    /\ faults = {"fetch"}
    /\ ImportPandasTa({TRUE})
    /\ CalcIdle

\* A technical-analysis run in which every fetch gives candles and the
\* indicator computations fail at will, pandas_ta being importable or not.
InitIndicators ==
    /\ script = "fetch_technical_analysis"
    /\ pc = "listing"
    /\ exit_code = -1
    /\ FetchStart
    /\ ConvertStart
    /\ faults = {"indicators"}
    /\ ImportPandasTa(BOOLEAN)
    /\ CalcIdle

(* ------------------- fetch_technical_analysis.main --------------------- *)

\* main, lines 493-505: fetch the listing; none -> return, else prepend VNINDEX.
TA_FetchListings ==
    /\ script = "fetch_technical_analysis"
    /\ pc = "listing"
    /\ \E listing \in SeqsUpTo(Symbols, MaxListing) :
         IF listing = <<>>
         THEN /\ pc' = "done"
              /\ exit_code' = 0
              /\ UNCHANGED tickers
         ELSE /\ tickers' = <<"VNINDEX">> \o listing
              /\ pc' = "submit"
              /\ UNCHANGED exit_code
    /\ UNCHANGED <<script, upc, price_data, reg, progress_lock, processed_count,
                   success_count, fail_count, collected, all_dfs, arrow_file,
                   writes, company_files, collect_raised, summary>>
    /\ UNCHANGED <<conv_vars, ind_vars, calc_vars>>

\* ThreadPoolExecutor.submit for every ticker (line 512 / line 185).
Submit ==
    /\ pc = "submit"
    /\ upc' = [u \in 1..Len(tickers) |-> "queued"]
    /\ price_data' = [u \in 1..Len(tickers) |-> "unset"]
    /\ reg' = [u \in 1..Len(tickers) |-> 0]
    /\ ind_set' = [u \in 1..Len(tickers) |-> "unset"]
    /\ pc' = "collect"
    /\ UNCHANGED <<script, exit_code, tickers, progress_lock, processed_count,
                   success_count, fail_count, collected, all_dfs, arrow_file,
                   writes, company_files, collect_raised, summary>>
    /\ UNCHANGED <<faults, has_pandas_ta, log, progress>>
    /\ UNCHANGED <<conv_vars, calc_vars>>

\* A pool that starts a thread for every queued unit.
IdleWorker_Unbounded == TRUE

\* ThreadPoolExecutor(max_workers=20): a queued unit is taken only while
\* fewer than max_workers units are being run.
IdleWorker == Cardinality(Running) < PoolSize

\* A pool thread takes the oldest queued unit (max_workers threads, FIFO queue).
Start(u) ==
    /\ pc \in {"collect"}
    /\ upc[u] = "queued"
    /\ \A v \in Units : v < u => upc[v] # "queued"
    /\ IdleWorker
    /\ upc' = [upc EXCEPT ![u] = "fetch"]
    /\ UNCHANGED <<script, pc, exit_code, tickers, price_data, reg, progress_lock,
                   processed_count, success_count, fail_count, collected, all_dfs,
                   arrow_file, writes, company_files, collect_raised, summary>>
    /\ UNCHANGED <<conv_vars, ind_vars, calc_vars>>

\* What fetch_price_data plus the candle list can be: no/unsuccessful response,
\* an empty candle list, candles the DataFrame steps raise on, good candles.
PriceOutcomes == {"none", "empty", "malformed", "candles"}

\* A fetch that gives nothing to compute on (lines 127 and 133).
TA_NothingFetched_FailedOnly(p) == p = "none"

TA_NothingFetched(p) == p \in {"none", "empty"}

\* Nothing is printed when the library computation raised.
LibraryFailedNotice_Silent == {}

\* What is printed when the library computation raised (line 276).
LibraryFailedNotice == {LibraryFailedLine}

\* What is printed when the manual computation raised (line 194).
ManualFailedNotice == {ManualFailedLine}

\* calculate_manual_indicators (lines 164-194): the subset computed by hand;
\* an exception inside is caught and printed, and the frame keeps the columns
\* set before it.
calculate_manual_indicators(manual_raises) ==
    IF manual_raises
    THEN [ind |-> "manual_partial", printed |-> ManualFailedNotice]
    ELSE [ind |-> "manual", printed |-> {}]

\* What happens to a unit whose indicator computation raised (lines 275-279,
\* 193-194): the exception is caught and the unit goes on to line 282.
TA_OnIndicatorError == "s_lock"

\* Lines 196-279: the full catalog when pandas_ta was imported and does not
\* raise, else the manual subset.
ComputeIndicators(lib_raises, manual_raises) ==
    LET manual == calculate_manual_indicators(manual_raises)
    IN  IF has_pandas_ta
        THEN IF lib_raises
             THEN [ind |-> manual.ind,
                   printed |-> LibraryFailedNotice \cup manual.printed,
                   next |-> TA_OnIndicatorError]
             ELSE [ind |-> "full", printed |-> {}, next |-> "s_lock"]
        ELSE [ind |-> manual.ind, printed |-> manual.printed,
              next |-> IF manual_raises THEN TA_OnIndicatorError ELSE "s_lock"]

\* process_ticker lines 125-464: fetch, build the frame, compute the
\* indicators. A failed fetch or empty series goes to the counter update of
\* lines 128/134; malformed candles raise out of the unit; good candles get
\* their indicators and reach line 467.
TA_Fetch(u) ==
    /\ script = "fetch_technical_analysis"
    /\ upc[u] = "fetch"
    /\ \E p \in PriceOutcomes, lib_raises \in BOOLEAN, manual_raises \in BOOLEAN :
         /\ "fetch" \notin faults => p = "candles"
         /\ "indicators" \notin faults => ~lib_raises /\ ~manual_raises
         /\ LET c == ComputeIndicators(lib_raises, manual_raises)
            IN  /\ price_data' = [price_data EXCEPT ![u] = p]
                /\ IF TA_NothingFetched(p)
                   THEN /\ upc' = [upc EXCEPT ![u] = "f_lock"]
                        /\ UNCHANGED <<ind_set, log>>
                   ELSE IF p = "malformed"
                   THEN /\ upc' = [upc EXCEPT ![u] = "raised"]
                        /\ UNCHANGED <<ind_set, log>>
                   ELSE /\ upc' = [upc EXCEPT ![u] = c.next]
                        /\ ind_set' = [ind_set EXCEPT ![u] = c.ind]
                        /\ log' = [m \in DOMAIN log |->
                                     log[m] + IF m \in c.printed THEN 1 ELSE 0]
    /\ UNCHANGED <<script, pc, exit_code, tickers, reg, progress_lock,
                   processed_count, success_count, fail_count, collected, all_dfs,
                   arrow_file, writes, company_files, collect_raised, summary>>
    /\ UNCHANGED <<faults, has_pandas_ta, progress>>
    /\ UNCHANGED <<conv_vars, calc_vars>>

\* Mutant of CanAcquire: the counters are updated without mutual exclusion.
CanAcquire_NoExclusion == TRUE

\* `with progress_lock:` can be entered only while no thread holds the lock.
CanAcquire == progress_lock = 0

\* `with progress_lock:` entry, lines 128, 134 and 467.
TA_Acquire(u) ==
    /\ upc[u] \in {"f_lock", "s_lock"}
    /\ CanAcquire
    /\ progress_lock' = u
    /\ upc' = [upc EXCEPT ![u] = IF upc[u] = "f_lock" THEN "f_load" ELSE "s_loadp"]
    /\ UNCHANGED <<script, pc, exit_code, tickers, price_data, reg,
                   processed_count, success_count, fail_count, collected, all_dfs,
                   arrow_file, writes, company_files, collect_raised, summary>>
    /\ UNCHANGED <<conv_vars, ind_vars, calc_vars>>

\* `processed_count += 1`: the load half (lines 129, 135, 468).
TA_LoadProcessed(u) ==
    /\ upc[u] \in {"f_load", "s_loadp"}
    /\ reg' = [reg EXCEPT ![u] = processed_count]
    /\ upc' = [upc EXCEPT ![u] = IF upc[u] = "f_load" THEN "f_store" ELSE "s_storep"]
    /\ UNCHANGED <<script, pc, exit_code, tickers, price_data, progress_lock,
                   processed_count, success_count, fail_count, collected, all_dfs,
                   arrow_file, writes, company_files, collect_raised, summary>>
    /\ UNCHANGED <<conv_vars, ind_vars, calc_vars>>

\* `processed_count += 1`: the store half.
TA_StoreProcessed(u) ==
    /\ upc[u] \in {"f_store", "s_storep"}
    /\ processed_count' = reg[u] + 1
    /\ upc' = [upc EXCEPT ![u] = IF upc[u] = "f_store" THEN "f_unlock" ELSE "s_loads"]
    /\ UNCHANGED <<script, pc, exit_code, tickers, price_data, reg, progress_lock,
                   success_count, fail_count, collected, all_dfs,
                   arrow_file, writes, company_files, collect_raised, summary>>
    /\ UNCHANGED <<conv_vars, ind_vars, calc_vars>>

\* `success_count += 1`: the load half (line 469).
TA_LoadSuccess(u) ==
    /\ upc[u] = "s_loads"
    /\ reg' = [reg EXCEPT ![u] = success_count]
    /\ upc' = [upc EXCEPT ![u] = "s_stores"]
    /\ UNCHANGED <<script, pc, exit_code, tickers, price_data, progress_lock,
                   processed_count, success_count, fail_count, collected, all_dfs,
                   arrow_file, writes, company_files, collect_raised, summary>>
    /\ UNCHANGED <<conv_vars, ind_vars, calc_vars>>

\* `success_count += 1`: the store half.
TA_StoreSuccess(u) ==
    /\ upc[u] = "s_stores"
    /\ success_count' = reg[u] + 1
    /\ upc' = [upc EXCEPT ![u] = "s_unlock"]
    /\ UNCHANGED <<script, pc, exit_code, tickers, price_data, reg, progress_lock,
                   processed_count, fail_count, collected, all_dfs,
                   arrow_file, writes, company_files, collect_raised, summary>>
    /\ UNCHANGED <<conv_vars, ind_vars, calc_vars>>

\* Units between two progress lines in the model; both scripts use 50.
ProgressEvery == 2

\* `if n % 50 == 0` (fetch_technical_analysis line 470, fetch_company_vietcap
\* line 207).
ProgressDue(n) == n % ProgressEvery = 0

\* The end of the `with` block. On the success path the progress line of
\* lines 470-471 is printed first when processed_count is a multiple of 50;
\* the blocks of lines 128-129 and 134-135 print nothing. Leaving the block
\* releases the lock, and the unit then returns None (lines 130, 136) or its
\* frame (line 473).
TA_Release(u) ==
    /\ upc[u] \in {"f_unlock", "s_unlock"}
    /\ progress' = IF upc[u] = "s_unlock" /\ ProgressDue(processed_count)
                   THEN Append(progress, processed_count)
                   ELSE progress
    /\ progress_lock' = 0
    /\ upc' = [upc EXCEPT ![u] = IF upc[u] = "f_unlock" THEN "ret_none" ELSE "ret_df"]
    /\ UNCHANGED <<script, pc, exit_code, tickers, price_data, reg,
                   processed_count, success_count, fail_count, collected, all_dfs,
                   arrow_file, writes, company_files, collect_raised, summary>>
    /\ UNCHANGED <<faults, has_pandas_ta, ind_set, log>>
    /\ UNCHANGED <<conv_vars, calc_vars>>

\* Mutant of TA_OnUnitException: future.result() is not guarded, so the
\* unit's exception leaves main.
TA_OnUnitException_Propagates == "aborted"

\* What the collection loop does with a future whose unit raised: the
\* try/except of lines 517-522 prints and goes on with the loop.
TA_OnUnitException == "collect"

\* main lines 515-522: one iteration of `for future in as_completed(...)`.
TA_Collect(u) ==
    /\ script = "fetch_technical_analysis"
    /\ pc = "collect"
    /\ u \in Finished \ collected
    /\ collected' = collected \cup {u}
    /\ IF upc[u] = "raised"
       THEN /\ pc' = TA_OnUnitException
            /\ UNCHANGED all_dfs
       ELSE /\ all_dfs' = IF upc[u] = "ret_df" THEN Append(all_dfs, u) ELSE all_dfs
            /\ UNCHANGED pc
    /\ UNCHANGED <<script, exit_code, tickers, upc, price_data, reg, progress_lock,
                   processed_count, success_count, fail_count, arrow_file, writes,
                   company_files, collect_raised, summary>>
    /\ UNCHANGED <<conv_vars, ind_vars, calc_vars>>

\* The `with ThreadPoolExecutor` block ends once as_completed is exhausted;
\* leaving it joins the pool (shutdown(wait=True)).
PoolExit ==
    /\ pc = "collect"
    /\ collected = Units
    /\ pc' = "merge"
    /\ UNCHANGED <<script, exit_code, tickers, upc, price_data, reg, progress_lock,
                   processed_count, success_count, fail_count, collected, all_dfs,
                   arrow_file, writes, company_files, collect_raised, summary>>
    /\ UNCHANGED <<conv_vars, ind_vars, calc_vars>>

\* Mutant of TA_SavePoint: the merge-and-save block sits inside the
\* collection loop.
TA_SavePoint_InLoop == pc \in {"collect", "merge"}

\* Positions of main at which the merge-and-save block runs (lines 524-529,
\* after the `with ThreadPoolExecutor` block).
TA_SavePoint == pc = "merge"

\* save_to_arrow (lines 475-484): one write of the whole table by the caller.
save_to_arrow(rows, caller) ==
    /\ arrow_file' = <<rows>>
    /\ writes' = Append(writes, caller)

\* The counts printed by the summary line 531: success_count and len(tickers).
TA_Summary == ("success" :> success_count) @@ ("total" :> Len(tickers))

\* main lines 524-534: concat + save + summary, or "No data collected!".
TA_Merge ==
    /\ script = "fetch_technical_analysis"
    /\ TA_SavePoint
    /\ IF all_dfs # <<>>
       THEN /\ save_to_arrow(all_dfs, "main")
            /\ summary' = TA_Summary
       ELSE UNCHANGED <<arrow_file, writes, summary>>
    /\ pc' = "done"
    /\ exit_code' = 0
    /\ UNCHANGED <<script, tickers, upc, price_data, reg, progress_lock,
                   processed_count, success_count, fail_count, collected, all_dfs,
                   company_files, collect_raised>>
    /\ UNCHANGED <<conv_vars, ind_vars, calc_vars>>

(* --------------------- fetch_company_vietcap.main ---------------------- *)

\* main lines 116-166: load the stock list; none -> log and return.
C_LoadStocks ==
    /\ script = "fetch_company_vietcap"
    /\ pc = "listing"
    /\ \E listing \in SeqsUpTo(Symbols, MaxListing) :
         IF listing = <<>>
         THEN /\ pc' = "done"
              /\ exit_code' = 0
              /\ UNCHANGED tickers
         ELSE /\ tickers' = listing
              /\ pc' = "submit"
              /\ UNCHANGED exit_code
    /\ UNCHANGED <<script, upc, price_data, reg, progress_lock, processed_count,
                   success_count, fail_count, collected, all_dfs, arrow_file,
                   writes, company_files, collect_raised, summary>>
    /\ UNCHANGED <<conv_vars, ind_vars, calc_vars>>

\* fetch_company_details (lines 77-108): (symbol, details) when the overview
\* was fetched, else (symbol, None); its try/except lets nothing escape.
C_Fetch(u) ==
    /\ script = "fetch_company_vietcap"
    /\ upc[u] = "fetch"
    /\ \E got_overview \in BOOLEAN :
         upc' = [upc EXCEPT ![u] = IF got_overview THEN "ret_details" ELSE "ret_none"]
    /\ UNCHANGED <<script, pc, exit_code, tickers, price_data, reg, progress_lock,
                   processed_count, success_count, fail_count, collected, all_dfs,
                   arrow_file, writes, company_files, collect_raised, summary>>
    /\ UNCHANGED <<conv_vars, ind_vars, calc_vars>>

\* What the collection loop does when handling a result raises: the
\* try/except of lines 194-212 logs, counts a failure and goes on.
C_OnCollectException == "collect"

\* main lines 191-212: one iteration of the as_completed loop, idx counting
\* the iterations from 1. Writing the symbol's file may raise (write_ok =
\* FALSE), which the except clause counts; the progress line of lines 207-208
\* is inside the try, after the counting, so a raising iteration skips it.
C_Collect(u) ==
    /\ script = "fetch_company_vietcap"
    /\ pc = "collect"
    /\ u \in Finished \ collected
    /\ collected' = collected \cup {u}
    /\ LET idx == Cardinality(collected) + 1
           printed == IF ProgressDue(idx) THEN Append(progress, idx) ELSE progress
       IN  IF upc[u] = "ret_details"
           THEN \E write_ok \in BOOLEAN :
                  IF write_ok
                  THEN /\ company_files' = (tickers[u] :> u) @@ company_files
                       /\ success_count' = success_count + 1
                       /\ progress' = printed
                       /\ UNCHANGED <<fail_count, collect_raised, pc>>
                  ELSE /\ fail_count' = fail_count + 1
                       /\ collect_raised' = collect_raised \cup {u}
                       /\ pc' = C_OnCollectException
                       /\ UNCHANGED <<company_files, success_count, progress>>
           ELSE /\ fail_count' = fail_count + 1
                /\ progress' = printed
                /\ UNCHANGED <<company_files, success_count, collect_raised, pc>>
    /\ UNCHANGED <<script, exit_code, tickers, upc, price_data, reg, progress_lock,
                   processed_count, all_dfs, arrow_file, writes, summary>>
    /\ UNCHANGED <<faults, has_pandas_ta, ind_set, log>>
    /\ UNCHANGED <<conv_vars, calc_vars>>

\* The counts of the summary block, lines 215-227.
C_Summary == ("total" :> Len(tickers)) @@ ("success" :> success_count)
                 @@ ("failed" :> fail_count)

\* main lines 214-227: log and print the summary, then return.
C_Finish ==
    /\ script = "fetch_company_vietcap"
    /\ pc = "merge"
    /\ summary' = C_Summary
    /\ pc' = "done"
    /\ exit_code' = 0
    /\ UNCHANGED <<script, tickers, upc, price_data, reg, progress_lock,
                   processed_count, success_count, fail_count, collected, all_dfs,
                   arrow_file, writes, company_files, collect_raised>>
    /\ UNCHANGED <<conv_vars, ind_vars, calc_vars>>

NextCompany ==
    \/ C_LoadStocks
    \/ \E u \in Units : C_Fetch(u)
    \/ \E u \in Units : C_Collect(u)
    \/ C_Finish

NextTA ==
    \/ TA_FetchListings
    \/ Submit
    \/ \E u \in Units : Start(u)
    \/ \E u \in Units : TA_Fetch(u)
    \/ \E u \in Units : TA_Acquire(u)
    \/ \E u \in Units : TA_LoadProcessed(u)
    \/ \E u \in Units : TA_StoreProcessed(u)
    \/ \E u \in Units : TA_LoadSuccess(u)
    \/ \E u \in Units : TA_StoreSuccess(u)
    \/ \E u \in Units : TA_Release(u)
    \/ \E u \in Units : TA_Collect(u)
    \/ PoolExit
    \/ TA_Merge

(* ------------------------ convert_to_arrow.main ------------------------ *)

\* The `ticker` / `symbol` entries an input document can have.
TickerVals == {Missing, Null, StrV(""), StrV("AAA"), IntV(7)}

\* What opening a document can give: a JSON error, or an object with some
\* ticker entry.
DocHeaders ==
    {[loads |-> FALSE, ticker |-> Missing]}
    \cup {[loads |-> TRUE, ticker |-> t] : t \in TickerVals}

\* The report types the input documents carry sections for.
InputReportTypes == {"BALANCE_SHEET", "NOTE"}

\* The yearReport / quarterReport entries of a period object.
PeriodVals == {Missing, StrV(""), IntV(2023), StrV("2023Q4"), StrV("2024Q1")}

\* The other fields of a period object.
FieldSeqs ==
    { << <<"bsa1", IntV(5)>> >>,
      << <<"bsa1", StrV("n/a")>> >>,
      << <<"organCode", IntV(5)>> >>,
      << <<"bsa1", BigInt>> >>,
      << <<"bsa1", IntV(5)>>, <<"bsa2", BigInt>> >> }

\* The elements a `years` / `quarters` list can hold.
PeriodObjs ==
    [is_dict : {TRUE}, kind : {"years", "quarters"}, rt : InputReportTypes,
     period : PeriodVals, fields : FieldSeqs]
    \cup {[is_dict |-> FALSE, kind |-> "years", rt |-> "NOTE",
           period |-> Missing, fields |-> <<>>]}

\* Records accumulated so far by the running converter.
RECURSIVE SumLens(_, _)
SumLens(f, S) ==
    IF S = {} THEN 0
    ELSE LET x == CHOOSE y \in S : TRUE IN Len(f[x]) + SumLens(f, S \ {x})

Accumulated == SumLens(data_by_type, DOMAIN data_by_type) + Len(records)

\* main line 323, extract_metadata (lines 36-64): no input file -> sys.exit(1);
\* the first file is loaded outside any try, so a JSON error ends the run with
\* a traceback (exit status 1); else metadata.json is written.
CA_ExtractMetadata ==
    /\ script = "convert_to_arrow"
    /\ pc = "start"
    /\ \E n \in 0..MaxDocs, first_loads \in BOOLEAN :
         /\ total_files' = n
         /\ IF n = 0 \/ ~first_loads
            THEN /\ pc' = "done"
                 /\ exit_code' = 1
                 /\ UNCHANGED metadata_json
            ELSE /\ metadata_json' = TRUE
                 /\ pc' = "convert"
                 /\ UNCHANGED exit_code
    /\ UNCHANGED <<script, file_idx, cur_ticker, cur_pos, doc_added, data_by_type,
                   records, out_files, doc_outcome, no_ticker_docs>>
    /\ UNCHANGED <<tickers, upc, price_data, reg, progress_lock, processed_count,
                   success_count, fail_count, collected, all_dfs, arrow_file, writes,
                   company_files, collect_raised, summary>>
    /\ UNCHANGED <<ind_vars, calc_vars>>

\* convert_to_parquet_by_type lines 80-94: list the files; none -> sys.exit(1).
CA_ListFiles ==
    /\ script = "convert_to_arrow"
    /\ pc = "convert"
    /\ IF total_files = 0
       THEN pc' = "done" /\ exit_code' = 1
       ELSE pc' = "next_doc" /\ UNCHANGED exit_code
    /\ UNCHANGED <<script, total_files, file_idx, cur_ticker, cur_pos, doc_added,
                   data_by_type, records, out_files, metadata_json, doc_outcome,
                   no_ticker_docs>>
    /\ UNCHANGED <<tickers, upc, price_data, reg, progress_lock, processed_count,
                   success_count, fail_count, collected, all_dfs, arrow_file, writes,
                   company_files, collect_raised, summary>>
    /\ UNCHANGED <<ind_vars, calc_vars>>

\* Where the file loop goes after an exception inside its try (lines 188-191).
CA_OnDocException == "next_doc"

\* A test that passes over only a document whose ticker is absent or null.
CA_LacksTicker_NoneOnly(ticker) == Get(ticker) = Null

\* Whether a document with this ticker entry is passed over (lines 104-107).
CA_LacksTicker(ticker) == ~Truthy(Get(ticker))

\* Lines 99-109: open the next file and read its ticker. The first file was
\* loaded by extract_metadata already, so it loads here too.
CA_OpenDoc ==
    /\ script = "convert_to_arrow"
    /\ pc = "next_doc"
    /\ file_idx < total_files
    /\ \E h \in DocHeaders :
         /\ file_idx = 0 => h.loads
         /\ cur_ticker' = h.ticker
         /\ cur_pos' = 0
         /\ doc_added' = 0
         /\ IF ~h.loads
            THEN /\ doc_outcome' = "load_error"
                 /\ file_idx' = file_idx + 1
                 /\ pc' = CA_OnDocException
                 /\ UNCHANGED no_ticker_docs
            ELSE IF CA_LacksTicker(h.ticker)
            THEN /\ doc_outcome' = "no_ticker"
                 /\ no_ticker_docs' = no_ticker_docs + 1
                 /\ file_idx' = file_idx + 1
                 /\ UNCHANGED pc
            ELSE /\ doc_outcome' = "open"
                 /\ pc' = "in_doc"
                 /\ UNCHANGED <<file_idx, no_ticker_docs>>
    /\ UNCHANGED <<script, exit_code, total_files, data_by_type, records, out_files,
                   metadata_json>>
    /\ UNCHANGED <<tickers, upc, price_data, reg, progress_lock, processed_count,
                   success_count, fail_count, collected, all_dfs, arrow_file, writes,
                   company_files, collect_raised, summary>>
    /\ UNCHANGED <<ind_vars, calc_vars>>

\* Lines 114-186 for the next element of a `years` / `quarters` list of the
\* open document: its records are appended to the report type's list; an
\* exception ends the document at the except clause of line 188.
CA_PeriodObject ==
    /\ script = "convert_to_arrow"
    /\ pc = "in_doc"
    /\ \E obj \in PeriodObjs :
         LET r == ProcessPeriodObject(cur_ticker, obj)
         IN  /\ Pos(obj) >= cur_pos
             /\ Accumulated + Len(r.recs) <= MaxRecords
             /\ data_by_type' = [data_by_type EXCEPT ![obj.rt] = @ \o r.recs]
             /\ doc_added' = doc_added + Len(r.recs)
             /\ IF r.raised
                THEN /\ doc_outcome' = "raised"
                     /\ file_idx' = file_idx + 1
                     /\ pc' = CA_OnDocException
                     /\ UNCHANGED cur_pos
                ELSE /\ cur_pos' = Pos(obj)
                     /\ UNCHANGED <<doc_outcome, file_idx, pc>>
    /\ UNCHANGED <<script, exit_code, total_files, cur_ticker, records, out_files,
                   metadata_json, no_ticker_docs>>
    /\ UNCHANGED <<tickers, upc, price_data, reg, progress_lock, processed_count,
                   success_count, fail_count, collected, all_dfs, arrow_file, writes,
                   company_files, collect_raised, summary>>
    /\ UNCHANGED <<ind_vars, calc_vars>>

\* The document's lists are exhausted: the loop takes the next file.
CA_EndDoc ==
    /\ script = "convert_to_arrow"
    /\ pc = "in_doc"
    /\ doc_outcome' = "ok"
    /\ file_idx' = file_idx + 1
    /\ pc' = "next_doc"
    /\ UNCHANGED <<script, exit_code, total_files, cur_ticker, cur_pos, doc_added,
                   data_by_type, records, out_files, metadata_json, no_ticker_docs>>
    /\ UNCHANGED <<tickers, upc, price_data, reg, progress_lock, processed_count,
                   success_count, fail_count, collected, all_dfs, arrow_file, writes,
                   company_files, collect_raised, summary>>
    /\ UNCHANGED <<ind_vars, calc_vars>>

\* The file loop is exhausted (line 193): go on to the write loop.
CA_EndLoop ==
    /\ script = "convert_to_arrow"
    /\ pc = "next_doc"
    /\ file_idx = total_files
    /\ pc' = "write"
    /\ UNCHANGED <<script, exit_code, total_files, file_idx, cur_ticker, cur_pos,
                   doc_added, data_by_type, records, out_files, metadata_json,
                   doc_outcome, no_ticker_docs>>
    /\ UNCHANGED <<tickers, upc, price_data, reg, progress_lock, processed_count,
                   success_count, fail_count, collected, all_dfs, arrow_file, writes,
                   company_files, collect_raised, summary>>
    /\ UNCHANGED <<ind_vars, calc_vars>>

\* Lines 204-253 for every report type: all the year files written.
RECURSIVE WriteAll(_)
WriteAll(i) ==
    IF i > Len(ReportTypes) THEN <<>>
    ELSE WritePartitions(ReportTypes[i], data_by_type[ReportTypes[i]]) @@ WriteAll(i + 1)

\* Lines 204-258 and main lines 329-356: the write loop over the report
\* types; verify_output finds metadata.json; main prints and returns.
CA_Write ==
    /\ script = "convert_to_arrow"
    /\ pc = "write"
    /\ out_files' = WriteAll(1) @@ out_files
    /\ pc' = "done"
    /\ exit_code' = 0
    /\ UNCHANGED <<script, total_files, file_idx, cur_ticker, cur_pos, doc_added,
                   data_by_type, records, metadata_json, doc_outcome, no_ticker_docs>>
    /\ UNCHANGED <<tickers, upc, price_data, reg, progress_lock, processed_count,
                   success_count, fail_count, collected, all_dfs, arrow_file, writes,
                   company_files, collect_raised, summary>>
    /\ UNCHANGED <<ind_vars, calc_vars>>

NextConvertToArrow ==
    \/ CA_ExtractMetadata
    \/ CA_ListFiles
    \/ CA_OpenDoc
    \/ CA_PeriodObject
    \/ CA_EndDoc
    \/ CA_EndLoop
    \/ CA_Write

(* --------------------- convert_ratios_to_arrow ------------------------- *)

\* What opening a ratios document can give: a JSON error, or an object with
\* some symbol entry and a financial_stats list that is usable or not.
RatioDocHeaders ==
    {[loads |-> FALSE, ticker |-> Missing, has_stats |-> FALSE]}
    \cup [loads : {TRUE}, ticker : TickerVals, has_stats : BOOLEAN]

\* The elements a financial_stats list can hold.
RatioItems ==
    [is_dict : {TRUE}, year : {IntV(2023)}, quarter : {IntV(1), StrV("2"), Null},
     ratioType : {StrV("ratio")},
     metrics : { << <<"pe", IntV(10)>> >>,
                 << <<"pe", Null>> >>,
                 << <<"marketCap", StrV("n/a")>> >>,
                 << <<"pe", BigInt>> >> }]
    \cup {[is_dict |-> FALSE, year |-> Missing, quarter |-> Missing,
           ratioType |-> Missing, metrics |-> <<>>]}

\* Lines 27-32: list the files; none -> print and return False. The caller
\* (line 136) drops the result, so the process ends with status 0.
CR_ListFiles ==
    /\ script = "convert_ratios_to_arrow"
    /\ pc = "start"
    /\ total_files' = ratios_json
    /\ IF ratios_json = 0
       THEN pc' = "done" /\ exit_code' = 0 /\ cr_result' = "False"
       ELSE pc' = "next_doc" /\ UNCHANGED <<exit_code, cr_result>>
    /\ UNCHANGED <<script, file_idx, cur_ticker, cur_pos, doc_added, data_by_type,
                   records, out_files, metadata_json, doc_outcome, no_ticker_docs>>
    /\ UNCHANGED <<tickers, upc, price_data, reg, progress_lock, processed_count,
                   success_count, fail_count, collected, all_dfs, arrow_file, writes,
                   company_files, collect_raised, summary>>
    /\ UNCHANGED <<ind_vars, norm_vars, sma_vars, frame_vars, ratios_json, history, loop_vars>>

\* Where the file loop goes after an exception inside its try (lines 109-111).
CR_OnDocException == "next_doc"

\* Whether a document with this symbol entry is passed over (lines 41-43).
CR_LacksSymbol(ticker) == ~Truthy(Get(ticker))

\* Lines 36-47: open the next file, read its symbol and financial_stats.
CR_OpenDoc ==
    /\ script = "convert_ratios_to_arrow"
    /\ pc = "next_doc"
    /\ file_idx < total_files
    /\ \E h \in RatioDocHeaders :
         /\ cur_ticker' = h.ticker
         /\ doc_added' = 0
         /\ IF ~h.loads
            THEN /\ doc_outcome' = "load_error"
                 /\ file_idx' = file_idx + 1
                 /\ pc' = CR_OnDocException
                 /\ UNCHANGED no_ticker_docs
            ELSE IF CR_LacksSymbol(h.ticker)
            THEN /\ doc_outcome' = "no_ticker"
                 /\ no_ticker_docs' = no_ticker_docs + 1
                 /\ file_idx' = file_idx + 1
                 /\ UNCHANGED pc
            ELSE IF ~h.has_stats
            THEN /\ doc_outcome' = "no_stats"
                 /\ file_idx' = file_idx + 1
                 /\ UNCHANGED <<pc, no_ticker_docs>>
            ELSE /\ doc_outcome' = "open"
                 /\ pc' = "in_doc"
                 /\ UNCHANGED <<file_idx, no_ticker_docs>>
    /\ UNCHANGED <<script, exit_code, total_files, cur_pos, data_by_type, records,
                   out_files, metadata_json>>
    /\ UNCHANGED <<tickers, upc, price_data, reg, progress_lock, processed_count,
                   success_count, fail_count, collected, all_dfs, arrow_file, writes,
                   company_files, collect_raised, summary>>
    /\ UNCHANGED <<ind_vars, calc_vars>>

\* Lines 49-107 for the next item of financial_stats: its record is appended;
\* an exception ends the document at the except clause of line 109.
CR_Item ==
    /\ script = "convert_ratios_to_arrow"
    /\ pc = "in_doc"
    /\ \E item \in RatioItems :
         LET r == RatioRecord(cur_ticker, item)
         IN  IF r.raised
             THEN /\ doc_outcome' = "raised"
                  /\ file_idx' = file_idx + 1
                  /\ pc' = CR_OnDocException
                  /\ UNCHANGED <<records, doc_added>>
             ELSE /\ Accumulated < MaxRecords
                  /\ records' = Append(records, r.rec)
                  /\ doc_added' = doc_added + 1
                  /\ UNCHANGED <<doc_outcome, file_idx, pc>>
    /\ UNCHANGED <<script, exit_code, total_files, cur_ticker, cur_pos, data_by_type,
                   out_files, metadata_json, no_ticker_docs>>
    /\ UNCHANGED <<tickers, upc, price_data, reg, progress_lock, processed_count,
                   success_count, fail_count, collected, all_dfs, arrow_file, writes,
                   company_files, collect_raised, summary>>
    /\ UNCHANGED <<ind_vars, calc_vars>>

\* financial_stats (a non-empty list) is exhausted: the loop takes the next file.
CR_EndDoc ==
    /\ script = "convert_ratios_to_arrow"
    /\ pc = "in_doc"
    /\ doc_added >= 1
    /\ doc_outcome' = "ok"
    /\ file_idx' = file_idx + 1
    /\ pc' = "next_doc"
    /\ UNCHANGED <<script, exit_code, total_files, cur_ticker, cur_pos, doc_added,
                   data_by_type, records, out_files, metadata_json, no_ticker_docs>>
    /\ UNCHANGED <<tickers, upc, price_data, reg, progress_lock, processed_count,
                   success_count, fail_count, collected, all_dfs, arrow_file, writes,
                   company_files, collect_raised, summary>>
    /\ UNCHANGED <<ind_vars, calc_vars>>

\* The file loop is exhausted (line 113).
CR_EndLoop ==
    /\ script = "convert_ratios_to_arrow"
    /\ pc = "next_doc"
    /\ file_idx = total_files
    /\ pc' = "write"
    /\ UNCHANGED <<script, exit_code, total_files, file_idx, cur_ticker, cur_pos,
                   doc_added, data_by_type, records, out_files, metadata_json,
                   doc_outcome, no_ticker_docs>>
    /\ UNCHANGED <<tickers, upc, price_data, reg, progress_lock, processed_count,
                   success_count, fail_count, collected, all_dfs, arrow_file, writes,
                   company_files, collect_raised, summary>>
    /\ UNCHANGED <<ind_vars, calc_vars>>

\* Lines 113-133: no records -> return False; else build the table (an
\* exception here leaves the script with a traceback) and write the file.
CR_Write ==
    /\ script = "convert_ratios_to_arrow"
    /\ pc = "write"
    /\ pc' = "done"
    /\ IF records = <<>>
       THEN exit_code' = 0 /\ cr_result' = "False" /\ UNCHANGED out_files
       ELSE IF ~RatioTableCreatable(records)
       THEN exit_code' = 1 /\ cr_result' = "raised" /\ UNCHANGED out_files
       ELSE /\ exit_code' = 0
            /\ cr_result' = "True"
            /\ out_files' = (<<"ratios_data.arrow">> :> FromPylist(records)) @@ out_files
    /\ UNCHANGED <<script, total_files, file_idx, cur_ticker, cur_pos, doc_added,
                   data_by_type, records, metadata_json, doc_outcome, no_ticker_docs>>
    /\ UNCHANGED <<tickers, upc, price_data, reg, progress_lock, processed_count,
                   success_count, fail_count, collected, all_dfs, arrow_file, writes,
                   company_files, collect_raised, summary>>
    /\ UNCHANGED <<ind_vars, norm_vars, sma_vars, frame_vars, ratios_json, history, loop_vars>>

NextConvertRatios ==
    \/ CR_ListFiles
    \/ CR_OpenDoc
    \/ CR_Item
    \/ CR_EndDoc
    \/ CR_EndLoop
    \/ CR_Write

\* The ratios documents a run of convert_ratios_to_arrow finds on disk.
RatiosOnDisk ==
    /\ ratios_json \in 0..MaxDocs
    /\ cr_result = "none"
    /\ history = <<>>

InitConvert ==
    /\ script \in {"convert_to_arrow", "convert_ratios_to_arrow"}
    /\ pc = "start"
    /\ exit_code = -1
    /\ FetchStart
    /\ ConvertStart
    /\ IndIdle
    /\ NormIdle
    /\ SmaIdle
    /\ FrameIdle
    /\ LoopIdle
    /\ IF script = "convert_ratios_to_arrow" THEN RatiosOnDisk ELSE DirIdle

NextConvert == NextConvertToArrow \/ NextConvertRatios

SpecConvert == InitConvert /\ [][NextConvert]_vars

(* ------------------ the normalizers on single elements ------------------ *)

\* Most fields a period object / financial_stats item carries besides its
\* period keys.
MaxFields == 2

\* JSON values a field can hold.
FieldValues ==
    {IntV(5), FloatV(2), BoolV(TRUE), StrV("3"), StrV("n/a"), StrV(""), Null,
     ListV, DictV, BigInt}

\* Sequences of (key, value) pairs over the keys, each key at most once (the
\* element is a JSON object).
FieldsOver(keys) ==
    {f \in SeqsUpTo(keys \X FieldValues, MaxFields) :
        Len(f) >= 1 /\ \A i, j \in DOMAIN f : f[i][1] = f[j][1] => i = j}

\* Period objects of a `years` list and of a `quarters` list.
NzPeriodObjs ==
    [is_dict : {TRUE}, kind : {"years"}, rt : {"BALANCE_SHEET"},
     period : {IntV(2023)},
     fields : FieldsOver({"bsa1", "organCode", "quarterReport"})]
    \cup
    [is_dict : {TRUE}, kind : {"quarters"}, rt : {"BALANCE_SHEET"},
     period : {StrV("2023Q4")},
     fields : FieldsOver({"bsa1", "organCode", "yearReport"})]

\* Items of a financial_stats list.
NzRatioItems ==
    [is_dict : {TRUE}, year : {IntV(2023)}, quarter : {IntV(1), Missing},
     ratioType : {StrV("ratio")},
     metrics : FieldsOver({"marketCap", "market_cap", "pe", "organCode",
                           "ratio_type"})]

\* The ticker / symbol of a document that got past the identifier test.
NzTickers == {t \in TickerVals : Truthy(Get(t))}

InitNormalize ==
    /\ script \in {"convert_to_arrow", "convert_ratios_to_arrow"}
    /\ pc = "in_doc"
    /\ exit_code = -1
    /\ FetchStart
    /\ ConvertStart
    /\ IndIdle
    /\ nz_pc = "input"
    /\ nz_input \in
         IF script = "convert_to_arrow"
         THEN [ticker : NzTickers, elem : NzPeriodObjs]
         ELSE [ticker : NzTickers, elem : NzRatioItems]
    /\ nz_result = <<>>
    /\ SmaIdle
    /\ SideIdle

\* convert_to_arrow lines 133-157 / 162-186 applied to one period object.
N_PeriodObject ==
    /\ script = "convert_to_arrow"
    /\ nz_pc = "input"
    /\ nz_result' = ProcessPeriodObject(nz_input.ticker, nz_input.elem)
    /\ nz_pc' = "emitted"
    /\ UNCHANGED <<nz_input, sma_vars, side_vars, fetch_vars, conv_vars, ind_vars>>

\* convert_ratios_to_arrow lines 49-107 applied to one item.
N_RatioItem ==
    /\ script = "convert_ratios_to_arrow"
    /\ nz_pc = "input"
    /\ nz_result' = RatioRecord(nz_input.ticker, nz_input.elem)
    /\ nz_pc' = "emitted"
    /\ UNCHANGED <<nz_input, sma_vars, side_vars, fetch_vars, conv_vars, ind_vars>>

NextNormalize == N_PeriodObject \/ N_RatioItem

SpecNormalize == InitNormalize /\ [][NextNormalize]_vars

(* ----------------------- the simple moving average --------------------- *)

\* Most candles of the series the rolling pass is run on.
MaxBars == 5

\* Window of the moving average in the model; the script uses 20, 50 and 200.
SmaWindow == 3

\* Closing prices of a candle.
CloseValues == {10, 11, 12, 13, 14}

\* The not-a-number entry of a column.
NaN == [nan |-> TRUE, num |-> 0, den |-> 1]

\* The quotient num / den as an entry of a column.
Quot(num, den) == [nan |-> FALSE, num |-> num, den |-> den]

\* The candle lists of the model: any closes, stamped oldest first or newest
\* first.
CandleLists ==
    {[i \in DOMAIN cs |-> [date |-> IF oldest_first THEN i ELSE Len(cs) + 1 - i,
                           close |-> cs[i]]] :
        cs \in SeqsUpTo(CloseValues, MaxBars), oldest_first \in BOOLEAN}

\* Line 161, df.sort_index(): the rows in the order of their dates.
RECURSIVE sort_index(_)
sort_index(rows) ==
    IF rows = <<>> THEN <<>>
    ELSE LET first == CHOOSE i \in DOMAIN rows :
                          \A j \in DOMAIN rows : rows[i].date <= rows[j].date
         IN  <<rows[first]>>
             \o sort_index([k \in 1..(Len(rows) - 1) |->
                               IF k < first THEN rows[k] ELSE rows[k + 1]])

\* A rolling window that asks for one observation only.
MinPeriods_One(w) == 1

\* rolling(window=w) without min_periods: as many observations as the window.
MinPeriods(w) == w

InitSMA ==
    /\ script = "fetch_technical_analysis"
    /\ pc = "indicators"
    /\ exit_code = -1
    /\ FetchStart
    /\ ConvertStart
    /\ IndIdle
    /\ NormIdle
    /\ SideIdle
    /\ candles \in CandleLists
    /\ window = SmaWindow
    /\ closes = <<>>
    /\ bar = 0
    /\ roll_sum = 0
    /\ roll_nobs = 0
    /\ sma_out = <<>>

\* Lines 139-161: the frame of the candles, sorted by date.
SMA_Sort ==
    /\ pc = "indicators"
    /\ closes' = [i \in DOMAIN candles |-> sort_index(candles)[i].close]
    /\ pc' = "rolling"
    /\ UNCHANGED <<script, exit_code, tickers, upc, price_data, reg, progress_lock,
                   processed_count, success_count, fail_count, collected, all_dfs,
                   arrow_file, writes, company_files, collect_raised, summary>>
    /\ UNCHANGED <<candles, window, bar, roll_sum, roll_nobs, sma_out>>
    /\ UNCHANGED <<conv_vars, ind_vars, norm_vars, side_vars>>

\* df['close'].rolling(window).mean() (lines 167-169, 200-202) at the next
\* bar: the bar enters the window, the bar that left it is taken out, and
\* the mean is given once the window holds min_periods observations.
SMA_Bar ==
    /\ pc = "rolling"
    /\ bar < Len(closes)
    /\ LET i == bar + 1
           leaving == IF i > window THEN closes[i - window] ELSE 0
           sum_x == roll_sum + closes[i] - leaving
           nobs == IF i > window THEN roll_nobs ELSE roll_nobs + 1
       IN  /\ roll_sum' = sum_x
           /\ roll_nobs' = nobs
           /\ sma_out' = Append(sma_out, IF nobs >= MinPeriods(window)
                                         THEN Quot(sum_x, nobs) ELSE NaN)
           /\ bar' = i
    /\ UNCHANGED <<candles, window, closes>>
    /\ UNCHANGED <<fetch_vars, conv_vars, ind_vars, norm_vars, side_vars>>

\* The column is complete.
SMA_Done ==
    /\ pc = "rolling"
    /\ bar = Len(closes)
    /\ pc' = "computed"
    /\ UNCHANGED <<script, exit_code, tickers, upc, price_data, reg, progress_lock,
                   processed_count, success_count, fail_count, collected, all_dfs,
                   arrow_file, writes, company_files, collect_raised, summary>>
    /\ UNCHANGED <<sma_vars, conv_vars, ind_vars, norm_vars, side_vars>>

NextSMA == SMA_Sort \/ SMA_Bar \/ SMA_Done

SpecSMA == InitSMA /\ [][NextSMA]_vars

(* --------------------------- the pivot levels -------------------------- *)

\* Most candles of the series the pivot levels are taken from.
MaxPivotBars == 3

\* Prices of a candle in the pivot runs.
PivotPrices == {90, 100, 110}

\* A candle's high, low and close: low <= close <= high.
Ohlc ==
    {b \in [high : PivotPrices, low : PivotPrices, close : PivotPrices] :
        b.low <= b.close /\ b.close <= b.high}

\* The candle lists of the pivot runs, stamped oldest first or newest first.
PivotCandles ==
    {[i \in DOMAIN bs |-> [date |-> IF oldest_first THEN i ELSE Len(bs) + 1 - i,
                           high |-> bs[i].high,
                           low |-> bs[i].low,
                           close |-> bs[i].close]] :
        bs \in SeqsUpTo(Ohlc, MaxPivotBars), oldest_first \in BOOLEAN}

\* Arithmetic on column entries; an entry with den = 0 is infinite.
RInt(k) == Quot(k, 1)

RAdd(a, b) ==
    IF a.nan \/ b.nan THEN NaN
    ELSE Quot(a.num * b.den + b.num * a.den, a.den * b.den)

RNeg(a) == IF a.nan THEN NaN ELSE Quot(0 - a.num, a.den)

RSub(a, b) == RAdd(a, RNeg(b))

RTimes(k, a) == IF a.nan THEN NaN ELSE Quot(k * a.num, a.den)

ROver(a, k) == IF a.nan THEN NaN ELSE Quot(a.num, a.den * k)

\* Equality of two entries as numbers; NaN equals nothing.
REq(a, b) == ~a.nan /\ ~b.nan /\ a.num * b.den = b.num * a.den

\* The first row of the frame.
iloc_first(col) == col[1]

\* Line 256, df.iloc[-1]: the last row of the frame.
iloc_last(col) == col[Len(col)]

\* df[name] = scalar: the scalar on every row.
Broadcast(n, v) == [i \in 1..n |-> v]

\* Lines 283-455: the entries of rename_mapping for the columns of the model;
\* a column without an entry keeps its name.
rename_mapping ==
    [k \in {"PSY_12", "pivot", "s1", "s2", "s3", "r1", "r2", "r3"} |->
        CASE k = "PSY_12" -> "psy"
          [] k = "pivot"  -> "pivot"
          [] k = "s1"     -> "support_1"
          [] k = "s2"     -> "support_2"
          [] k = "s3"     -> "support_3"
          [] k = "r1"     -> "resistance_1"
          [] k = "r2"     -> "resistance_2"
          [] k = "r3"     -> "resistance_3"]

Renamed(k) == IF k \in DOMAIN rename_mapping THEN rename_mapping[k] ELSE k

\* Line 458, df.rename(columns=rename_mapping).
rename(frame) ==
    [k2 \in {Renamed(k) : k \in DOMAIN frame} |->
        frame[CHOOSE k \in DOMAIN frame : Renamed(k) = k2]]

\* Lines 139-161: the frame of a candle list, sorted by date.
FrameOf(cs) ==
    LET sorted == sort_index(cs)
    IN  [c \in {"date", "high", "low", "close"} |->
            [i \in DOMAIN sorted |->
                CASE c = "date"  -> sorted[i].date
                  [] c = "high"  -> sorted[i].high
                  [] c = "low"   -> sorted[i].low
                  [] c = "close" -> sorted[i].close]]

\* Lines 255-273: the classic pivot points of the last candle, each set on
\* every row.
PivotColumns(frame) ==
    LET n     == Len(frame["close"])
        high  == RInt(iloc_last(frame["high"]))
        low   == RInt(iloc_last(frame["low"]))
        close == RInt(iloc_last(frame["close"]))
        pivot == ROver(RAdd(RAdd(high, low), close), 3)
        s1    == RSub(RTimes(2, pivot), high)
        s2    == RSub(pivot, RSub(high, low))
        s3    == RSub(low, RTimes(2, RSub(high, pivot)))
        r1    == RSub(RTimes(2, pivot), low)
        r2    == RAdd(pivot, RSub(high, low))
        r3    == RAdd(high, RTimes(2, RSub(pivot, low)))
    IN  [c \in {"pivot", "s1", "s2", "s3", "r1", "r2", "r3"} |->
            Broadcast(n, CASE c = "pivot" -> pivot
                           [] c = "s1" -> s1
                           [] c = "s2" -> s2
                           [] c = "s3" -> s3
                           [] c = "r1" -> r1
                           [] c = "r2" -> r2
                           [] c = "r3" -> r3)]

\* process_ticker past its fetch, on the candles of one ticker, with
\* pandas_ta at work.
InitPivot ==
    /\ script = "fetch_technical_analysis"
    /\ pc = "indicators"
    /\ exit_code = -1
    /\ FetchStart
    /\ ConvertStart
    /\ IndIdle
    /\ NormIdle
    /\ candles \in PivotCandles
    /\ window = 0
    /\ closes = <<>>
    /\ bar = 0
    /\ roll_sum = 0
    /\ roll_nobs = 0
    /\ sma_out = <<>>
    /\ df = <<>>
    /\ DirIdle
    /\ LoopIdle

\* What a step on the frame alone leaves as it is.
FrameStepOnly ==
    /\ UNCHANGED <<script, exit_code, tickers, upc, price_data, reg, progress_lock,
                   processed_count, success_count, fail_count, collected, all_dfs,
                   arrow_file, writes, company_files, collect_raised, summary>>
    /\ UNCHANGED <<conv_vars, ind_vars, norm_vars, sma_vars, dir_vars, loop_vars>>

\* Lines 139-161: the frame is built and sorted.
PV_Frame ==
    /\ pc = "indicators"
    /\ df = <<>>
    /\ df' = FrameOf(candles)
    /\ pc' = "pivots"
    /\ FrameStepOnly

\* Lines 254-273: the pivot columns are set (len(df) > 0 here, the candle
\* list being non-empty).
PV_Pivots ==
    /\ pc = "pivots"
    /\ df' = PivotColumns(df) @@ df
    /\ pc' = "rename"
    /\ FrameStepOnly

\* Lines 458-461: the columns get their output names.
PV_Rename ==
    /\ pc = "rename"
    /\ df' = rename(df)
    /\ pc' = "renamed"
    /\ FrameStepOnly

NextPivot == PV_Frame \/ PV_Pivots \/ PV_Rename

SpecPivot == InitPivot /\ [][NextPivot]_vars

(* ------------------------- the manual RSI column ----------------------- *)

\* Most candles of the series the oscillators are run on.
MaxOscBars == 5

\* Window of the RSI in the model; the script uses 14.
RsiLength == 3

\* Closing prices of a candle in the oscillator runs.
OscCloses == {10, 11, 12}

\* The candle lists of the oscillator runs.
OscCandles ==
    {[i \in DOMAIN cs |-> [date |-> IF oldest_first THEN i ELSE Len(cs) + 1 - i,
                           high |-> cs[i],
                           low |-> cs[i],
                           close |-> cs[i]]] :
        cs \in SeqsUpTo(OscCloses, MaxOscBars), oldest_first \in BOOLEAN}

\* An infinite entry: what a float division by zero gives.
IsInf(a) == ~a.nan /\ a.den = 0

\* Float division of two columns' entries: x / 0 is infinite, 0 / 0 and
\* inf / inf are NaN, nothing raises.
RDiv(a, b) ==
    IF a.nan \/ b.nan THEN NaN
    ELSE LET n == a.num * b.den
             d == a.den * b.num
         IN  IF n = 0 /\ d = 0 THEN NaN
             ELSE IF d < 0 THEN Quot(0 - n, 0 - d)
             ELSE Quot(n, d)

RPositive(a) == ~a.nan /\ a.num > 0

RNegative(a) == ~a.nan /\ a.num < 0

\* Line 176, df['close'].diff(): NaN on the first row.
diff(col) ==
    [i \in DOMAIN col |-> IF i = 1 THEN NaN ELSE RSub(RInt(col[i]), RInt(col[i - 1]))]

\* Line 177, delta.where(delta > 0, 0): NaN > 0 is false.
GainTerms(delta) ==
    [i \in DOMAIN delta |-> IF RPositive(delta[i]) THEN delta[i] ELSE RInt(0)]

\* The falling deltas with their sign.
LossTerms_Signed(delta) ==
    [i \in DOMAIN delta |-> IF RNegative(delta[i]) THEN delta[i] ELSE RInt(0)]

\* Line 178, -delta.where(delta < 0, 0).
LossTerms(delta) ==
    [i \in DOMAIN delta |-> RNeg(IF RNegative(delta[i]) THEN delta[i] ELSE RInt(0))]

\* Sum of the entries of col at the rows of S that are not NaN.
RECURSIVE RSum(_, _)
RSum(col, S) ==
    IF S = {} THEN RInt(0)
    ELSE LET i == CHOOSE x \in S : TRUE
         IN  IF col[i].nan THEN RSum(col, S \ {i})
             ELSE RAdd(col[i], RSum(col, S \ {i}))

\* The rows of the rolling window that ends at row i.
WindowAt(i, w) == {j \in 1..i : j > i - w}

\* col.rolling(window=w).mean(): the mean of the window's observations once
\* there are min_periods of them.
rolling_mean(col, w) ==
    [i \in DOMAIN col |->
        LET obs == {j \in WindowAt(i, w) : ~col[j].nan}
        IN  IF Cardinality(obs) >= MinPeriods(w)
            THEN ROver(RSum(col, obs), Cardinality(obs))
            ELSE NaN]

\* Lines 176-180 of calculate_manual_indicators: the RSI column.
ManualRsi(close, w) ==
    LET delta == diff(close)
        gain  == rolling_mean(GainTerms(delta), w)
        loss  == rolling_mean(LossTerms(delta), w)
        rs    == [i \in DOMAIN close |-> RDiv(gain[i], loss[i])]
    IN  [i \in DOMAIN close |->
            RSub(RInt(100), RDiv(RInt(100), RAdd(RInt(1), rs[i])))]

\* Line 464, df.replace([np.inf, -np.inf], np.nan) on the computed columns.
replace_inf(frame) ==
    [c \in DOMAIN frame |->
        IF c \in {"date", "high", "low", "close"} THEN frame[c]
        ELSE [i \in DOMAIN frame[c] |-> IF IsInf(frame[c][i]) THEN NaN ELSE frame[c][i]]]

\* process_ticker past its fetch, on the candles of one ticker, computing by
\* the manual fallback.
InitRsi ==
    /\ script = "fetch_technical_analysis"
    /\ pc = "indicators"
    /\ exit_code = -1
    /\ FetchStart
    /\ ConvertStart
    /\ IndIdle
    /\ NormIdle
    /\ candles \in OscCandles
    /\ window = RsiLength
    /\ closes = <<>>
    /\ bar = 0
    /\ roll_sum = 0
    /\ roll_nobs = 0
    /\ sma_out = <<>>
    /\ df = <<>>
    /\ DirIdle
    /\ LoopIdle

\* Lines 139-161: the frame is built and sorted.
RS_Frame ==
    /\ pc = "indicators"
    /\ df = <<>>
    /\ df' = FrameOf(candles)
    /\ pc' = "manual"
    /\ FrameStepOnly

\* Lines 175-180: the RSI column is set.
RS_Rsi ==
    /\ pc = "manual"
    /\ df' = ("RSI_14" :> ManualRsi(df["close"], window)) @@ df
    /\ pc' = "rename"
    /\ FrameStepOnly

\* Lines 458-464: renaming, and the infinite entries replaced by NaN.
RS_Replace ==
    /\ pc = "rename"
    /\ df' = replace_inf(rename(df))
    /\ pc' = "returned"
    /\ FrameStepOnly

NextRsi == RS_Frame \/ RS_Rsi \/ RS_Replace

SpecRsi == InitRsi /\ [][NextRsi]_vars

(* ------------------------ the psychological line ----------------------- *)

\* Window of the psychological line in the model; the script uses 12.
PsyLength == 3

\* A close that is not below the previous one, the first row included.
IsUpClose_OrFlat(d) == ~RNegative(d)

\* Line 252, df['close'].diff() > 0: NaN > 0 is false.
IsUpClose(d) == RPositive(d)

\* The boolean column as the numbers the rolling sum adds.
UpCloses(delta) ==
    [i \in DOMAIN delta |-> IF IsUpClose(delta[i]) THEN RInt(1) ELSE RInt(0)]

\* col.rolling(w).sum(): the sum of the window's observations once there are
\* min_periods of them.
rolling_sum(col, w) ==
    [i \in DOMAIN col |->
        LET obs == {j \in WindowAt(i, w) : ~col[j].nan}
        IN  IF Cardinality(obs) >= MinPeriods(w) THEN RSum(col, obs) ELSE NaN]

\* Line 252: 100 * (df['close'].diff() > 0).rolling(12).sum() / 12.
Psy(close, w) ==
    LET ups == rolling_sum(UpCloses(diff(close)), w)
    IN  [i \in DOMAIN close |-> ROver(RTimes(100, ups[i]), w)]

\* process_ticker past its fetch, on the candles of one ticker, with
\* pandas_ta at work.
InitPsy ==
    /\ script = "fetch_technical_analysis"
    /\ pc = "indicators"
    /\ exit_code = -1
    /\ FetchStart
    /\ ConvertStart
    /\ IndIdle
    /\ NormIdle
    /\ candles \in OscCandles
    /\ window = PsyLength
    /\ closes = <<>>
    /\ bar = 0
    /\ roll_sum = 0
    /\ roll_nobs = 0
    /\ sma_out = <<>>
    /\ df = <<>>
    /\ DirIdle
    /\ LoopIdle

\* Lines 139-161: the frame is built and sorted.
PS_Frame ==
    /\ pc = "indicators"
    /\ df = <<>>
    /\ df' = FrameOf(candles)
    /\ pc' = "psy"
    /\ FrameStepOnly

\* Lines 251-252: the PSY_12 column is set.
PS_Psy ==
    /\ pc = "psy"
    /\ df' = ("PSY_12" :> Psy(df["close"], window)) @@ df
    /\ pc' = "rename"
    /\ FrameStepOnly

\* Lines 458-464: the column is renamed to psy; infinite entries become NaN.
PS_Rename ==
    /\ pc = "rename"
    /\ df' = replace_inf(rename(df))
    /\ pc' = "returned"
    /\ FrameStepOnly

NextPsy == PS_Frame \/ PS_Psy \/ PS_Rename

SpecPsy == InitPsy /\ [][NextPsy]_vars

(* --------------------------- partition_ratios -------------------------- *)

\* What a step of the ratios scripts' sequence leaves as it is.
RatiosStepOnly ==
    /\ UNCHANGED <<tickers, upc, price_data, reg, progress_lock, processed_count,
                   success_count, fail_count, collected, all_dfs, arrow_file, writes,
                   company_files, collect_raised, summary>>
    /\ UNCHANGED <<ind_vars, norm_vars, sma_vars, frame_vars, loop_vars>>

\* The converter's loop state, as a step of partition_ratios leaves it.
ConverterLocals ==
    <<total_files, file_idx, cur_ticker, cur_pos, doc_added, data_by_type, records,
      metadata_json, doc_outcome, no_ticker_docs>>

\* The written bulk file of ratios records.
INPUT_FILE == <<"ratios_data.arrow">>

\* The *.json files left when the old files are kept.
Unlinked_Kept(n) == n

\* Lines 32-36: json_file.unlink() for every *.json of OUTPUT_DIR.
Unlinked(n) == 0

\* Line 40, sorted(df['year'].unique()), as a set.
YearsOf(rows) == {rows[i]["year"] : i \in DOMAIN rows}

\* Line 44, df[df['year'] == year].
RowsOfYear(rows, year) == SelectSeq(rows, LAMBDA r : r["year"] = year)

\* Lines 43-52: one file per year in OUTPUT_DIR.
YearFiles(rows) ==
    [path \in {<<"ratios", y.s>> : y \in YearsOf(rows)} |->
        RowsOfYear(rows, CHOOSE y \in YearsOf(rows) : y.s = path[2])]

\* partition_ratios is run after the conversion has ended.
PL_Partition ==
    /\ script = "convert_ratios_to_arrow"
    /\ pc = "done"
    /\ history = <<>>
    /\ history' = <<[script |-> script, result |-> cr_result]>>
    /\ script' = "partition_ratios"
    /\ pc' = "load"
    /\ exit_code' = -1
    /\ UNCHANGED <<ConverterLocals, out_files, ratios_json, cr_result>>
    /\ RatiosStepOnly

\* Lines 20-29: the bulk file is opened and read; a missing file raises and
\* ends the script before anything is removed.
PR_Load ==
    /\ script = "partition_ratios"
    /\ pc = "load"
    /\ IF INPUT_FILE \in DOMAIN out_files
       THEN pc' = "clear" /\ UNCHANGED exit_code
       ELSE pc' = "done" /\ exit_code' = 1
    /\ UNCHANGED <<script, ConverterLocals, out_files, dir_vars>>
    /\ RatiosStepOnly

\* Lines 31-36: every *.json file of frontend/api_data/ratios is removed.
PR_Clear ==
    /\ script = "partition_ratios"
    /\ pc = "clear"
    /\ ratios_json' = Unlinked(ratios_json)
    /\ pc' = "write_years"
    /\ UNCHANGED <<script, exit_code, ConverterLocals, out_files, cr_result, history>>
    /\ RatiosStepOnly

\* Lines 38-59: the rows of each year are written to their own file.
PR_WriteYears ==
    /\ script = "partition_ratios"
    /\ pc = "write_years"
    /\ out_files' = YearFiles(out_files[INPUT_FILE]) @@ out_files
    /\ pc' = "report"
    /\ UNCHANGED <<script, exit_code, ConverterLocals, dir_vars>>
    /\ RatiosStepOnly

\* Lines 61-72: the size report; int(y) raises on a year that is no number.
PR_Report ==
    /\ script = "partition_ratios"
    /\ pc = "report"
    /\ pc' = "done"
    /\ exit_code' = IF \A y \in YearsOf(out_files[INPUT_FILE]) : IsDigits(y.s)
                    THEN 0 ELSE 1
    /\ UNCHANGED <<script, ConverterLocals, out_files, dir_vars>>
    /\ RatiosStepOnly

\* convert_ratios_to_arrow is run again, nothing having been fetched since.
PL_ConvertAgain ==
    /\ script = "partition_ratios"
    /\ pc = "done"
    /\ Len(history) = 1
    /\ history' = Append(history, [script |-> script,
                                   result |-> IF exit_code = 0 THEN "ok" ELSE "raised"])
    /\ script' = "convert_ratios_to_arrow"
    /\ pc' = "start"
    /\ exit_code' = -1
    /\ cr_result' = "none"
    /\ total_files' = 0
    /\ file_idx' = 0
    /\ cur_ticker' = Null
    /\ cur_pos' = 0
    /\ doc_added' = 0
    /\ records' = <<>>
    /\ doc_outcome' = "none"
    /\ no_ticker_docs' = 0
    /\ UNCHANGED <<data_by_type, metadata_json, out_files, ratios_json>>
    /\ RatiosStepOnly

InitRatiosSequence ==
    /\ script = "convert_ratios_to_arrow"
    /\ pc = "start"
    /\ exit_code = -1
    /\ FetchStart
    /\ ConvertStart
    /\ IndIdle
    /\ NormIdle
    /\ SmaIdle
    /\ FrameIdle
    /\ LoopIdle
    /\ RatiosOnDisk

NextRatiosSequence ==
    \/ NextConvertRatios
    \/ PL_Partition
    \/ PR_Load
    \/ PR_Clear
    \/ PR_WriteYears
    \/ PR_Report
    \/ PL_ConvertAgain

SpecRatiosSequence == InitRatiosSequence /\ [][NextRatiosSequence]_vars

(* ------------------ fetch_screener.fetch_exchange_data ----------------- *)

\* Line 103: the exchanges fetch_all_screener_data submits, one call each.
Exchanges == {"HOSE", "HNX", "UPCOM"}

\* Line 24.
max_retries == 3

\* 2 ** n.
RECURSIVE Pow2(_)
Pow2(n) == IF n = 0 THEN 1 ELSE 2 * Pow2(n - 1)

\* What one attempt can do: screener.stock raises (or gives no frame, which
\* makes df.empty raise), gives an empty frame, gives rows.
AttemptOutcomes == {"raise", "empty", "rows"}

\* A failed attempt is never followed by another one.
RetryAllowed_Never(attempt) == FALSE

\* Line 39: a failed attempt is followed by another one.
RetryAllowed(attempt) == attempt < max_retries - 1

\* A call of fetch_exchange_data at line 25, nothing attempted yet.
CallStart ==
    [pc |-> "try", attempt |-> 0, outcomes |-> <<>>, slept |-> <<>>, result |-> "none"]

\* fetch_all_screener_data line 107: the three calls are running in the pool
\* of three threads.
InitRetry ==
    /\ script = "fetch_screener"
    /\ pc = "exchanges"
    /\ exit_code = -1
    /\ FetchStart
    /\ ConvertStart
    /\ IndIdle
    /\ NormIdle
    /\ SmaIdle
    /\ FrameIdle
    /\ DirIdle
    /\ fx = [ex \in Exchanges |-> CallStart]
    /\ fh = <<>>

\* What a step of one call leaves as it is.
CallStepOnly == UNCHANGED <<fetch_vars, conv_vars, ind_vars, norm_vars, sma_vars,
                            frame_vars, dir_vars, fh>>

\* Lines 25-35: the try body of the next attempt. A frame, empty or not, is
\* returned at once; an exception goes to the except clause. Line 46 is
\* reached only were the range exhausted.
FX_Try(ex) ==
    /\ fx[ex].pc = "try"
    /\ IF fx[ex].attempt >= max_retries
       THEN fx' = [fx EXCEPT ![ex].pc = "returned", ![ex].result = "empty"]
       ELSE \E o \in AttemptOutcomes :
              fx' = [fx EXCEPT ![ex].outcomes = Append(@, o),
                               ![ex].pc = IF o = "raise" THEN "except" ELSE "returned",
                               ![ex].result = CASE o = "raise" -> "none"
                                                [] o = "empty" -> "empty"
                                                [] o = "rows" -> "table"]
    /\ CallStepOnly

\* Lines 37-44: the except clause: sleep 2 ** attempt and go round again, or
\* return an empty frame after the last attempt.
FX_Except(ex) ==
    /\ fx[ex].pc = "except"
    /\ IF RetryAllowed(fx[ex].attempt)
       THEN fx' = [fx EXCEPT ![ex].slept = Append(@, Pow2(fx[ex].attempt)),
                             ![ex].attempt = @ + 1,
                             ![ex].pc = "try"]
       ELSE fx' = [fx EXCEPT ![ex].pc = "returned", ![ex].result = "empty"]
    /\ CallStepOnly

NextRetry == \E ex \in Exchanges : FX_Try(ex) \/ FX_Except(ex)

SpecRetry == InitRetry /\ [][NextRetry]_vars

(* ===================== fetch_funds_hybrid.main ========================= *)

\* Most fund codes the listing gives.
MaxFunds == 3

\* Mutant of AfterBothFailed: a fund neither source has is not counted.
AfterBothFailed_Uncounted(fail_count_) == fail_count_

\* Line 168, `fail_count += 1`, in the branch where both sources failed.
AfterBothFailed(fail_count_) == fail_count_ + 1

\* Lines 129-148: start_time is taken and the listing is about to be fetched.
InitFunds ==
    /\ script = "fetch_funds_hybrid"
    /\ pc = "funds"
    /\ exit_code = -1
    /\ FetchStart
    /\ ConvertStart
    /\ IndIdle
    /\ NormIdle
    /\ SmaIdle
    /\ FrameIdle
    /\ DirIdle
    /\ fx = <<>>
    /\ fh = [pc |-> "listing", fund_codes |-> 0, idx |-> 0,
             fmarket_success |-> 0, vnstock_fallback |-> 0, fail_count |-> 0,
             all_funds_data |-> <<>>, calls |-> <<>>, output |-> <<>>]

\* What a step of the fund run leaves as it is.
FundStepOnly == UNCHANGED <<fetch_vars, conv_vars, ind_vars, norm_vars, sma_vars,
                            frame_vars, dir_vars, fx>>

\* Lines 134-148: get_vnstock_fund_list gives the codes (here 1..n), or the
\* empty list, on which main logs and returns; the counters start at zero.
FH_FundList ==
    /\ fh # <<>>
    /\ fh.pc = "listing"
    /\ \E n \in 0..MaxFunds :
         fh' = [fh EXCEPT !.fund_codes = n,
                          !.pc = IF n = 0 THEN "returned" ELSE "loop"]
    /\ FundStepOnly

\* convert_fund_data (lines 84-124): the record made for a fund from the
\* source that answered.
convert_fund_data(fund_code, data_source) ==
    [code |-> fund_code, data_source |-> data_source]

\* Lines 150-158 and 171: the head of one iteration. get_fmarket_fund_details
\* answers with the fund's data or None (its try/except lets nothing out).
\* With data the fund is converted, counted and appended; convert_fund_data
\* has no try, so a field of an unexpected shape raises into main's except
\* clause. With None the else branch is taken.
FH_Fmarket ==
    /\ fh # <<>>
    /\ fh.pc = "loop"
    /\ fh.idx < fh.fund_codes
    /\ LET fund_code == fh.idx + 1
       IN  \E fmarket_data \in {"data", "None"}, converts \in BOOLEAN :
             LET called == Append(fh.calls, [fund |-> fund_code, source |-> "fmarket",
                                             got |-> fmarket_data # "None"])
             IN  IF fmarket_data = "None"
                 THEN /\ converts
                      /\ fh' = [fh EXCEPT !.calls = called, !.pc = "else"]
                 ELSE IF converts
                      THEN fh' = [fh EXCEPT
                                    !.calls = called,
                                    !.fmarket_success = @ + 1,
                                    !.all_funds_data =
                                        Append(@, convert_fund_data(fund_code, "fmarket")),
                                    !.idx = @ + 1]
                      ELSE fh' = [fh EXCEPT !.calls = called, !.pc = "except"]
    /\ FundStepOnly

\* Lines 159-171: the else branch. get_vnstock_fund_details answers with the
\* latest NAV or None; with data the fund is converted (the vnstock part of
\* convert_fund_data only reads keys of a dict), counted and appended, with
\* None the failure is counted and `continue` skips the append.
FH_Vnstock ==
    /\ fh # <<>>
    /\ fh.pc = "else"
    /\ LET fund_code == fh.idx + 1
       IN  \E vnstock_data \in {"data", "None"} :
             LET called == Append(fh.calls, [fund |-> fund_code, source |-> "vnstock",
                                             got |-> vnstock_data # "None"])
             IN  IF vnstock_data = "data"
                 THEN fh' = [fh EXCEPT
                               !.calls = called,
                               !.vnstock_fallback = @ + 1,
                               !.all_funds_data =
                                   Append(@, convert_fund_data(fund_code, "vnstock")),
                               !.idx = @ + 1,
                               !.pc = "loop"]
                 ELSE fh' = [fh EXCEPT
                               !.calls = called,
                               !.fail_count = AfterBothFailed(@),
                               !.idx = @ + 1,
                               !.pc = "loop"]
    /\ FundStepOnly

\* Lines 176-195: after the loop, data/funds.json is written with the counts;
\* opening or writing the file may raise into main's except clause.
FH_Save ==
    /\ fh # <<>>
    /\ fh.pc = "loop"
    /\ fh.idx = fh.fund_codes
    /\ \E written \in BOOLEAN :
         IF written
         THEN fh' = [fh EXCEPT
                       !.output = [total_funds |-> Len(fh.all_funds_data),
                                   data_sources |-> [fmarket |-> fh.fmarket_success,
                                                     vnstock |-> fh.vnstock_fallback],
                                   funds |-> fh.all_funds_data],
                       !.pc = "saved"]
         ELSE fh' = [fh EXCEPT !.pc = "except"]
    /\ FundStepOnly

\* Lines 197-216: the summary after the save, or the except clause that logs
\* the fatal error; main returns either way.
FH_Return ==
    /\ fh # <<>>
    /\ fh.pc \in {"saved", "except"}
    /\ fh' = [fh EXCEPT !.pc = "returned"]
    /\ FundStepOnly

NextFunds ==
    \/ FH_FundList
    \/ FH_Fmarket
    \/ FH_Vnstock
    \/ FH_Save
    \/ FH_Return

Init == InitFetch

Next == NextTA \/ NextCompany

Spec == Init /\ [][Next]_vars

\* The runs that keep outcome counters: the two pool scripts and the fund
\* script.
InitCounters == InitFetch \/ InitFunds

NextCounters == Next \/ NextFunds

SpecCounters == InitCounters /\ [][NextCounters]_vars

SpecIndicators == InitIndicators /\ [][NextTA]_vars

(* ======================= claims: the fetch runs ======================== *)

IsTA == script = "fetch_technical_analysis"

IsCompany == script = "fetch_company_vietcap"

\* Units whose data the run obtained and handled without an exception.
Succeeded ==
    {u \in Units : \/ IsTA /\ upc[u] = "ret_df"
                   \/ IsCompany /\ upc[u] = "ret_details" /\ u \notin collect_raised}

\* Units that failed: the fetch returned nothing, or the unit raised.
FailedUnits ==
    {u \in Units : \/ upc[u] \in {"ret_none", "raised"}
                   \/ u \in collect_raised}

\* The run's output holds unit u's data.
OutputHas(u) ==
    IF IsTA
    THEN arrow_file # <<>> /\ u \in Range(arrow_file[1])
    ELSE tickers[u] \in DOMAIN company_files

RunEnded == pc = "done" /\ tickers # <<>>

\* C1: when a run over N instruments ends with k failed units, the output
\* holds the data of each of the other N-k units and the run summary carries
\* an explicit failure count equal to k.
C1_FailureCountInSummary ==
    RunEnded =>
        /\ Succeeded \cup FailedUnits = 1..Len(tickers)
        /\ \A u \in Succeeded : OutputHas(u)
        /\ "failed" \in DOMAIN summary
        /\ summary["failed"] = Cardinality(FailedUnits)

\* C2: an exception of one unit, raised in the worker or while main handles
\* its result, never aborts the run: main never leaves the loop by an
\* exception, the run is never stuck before its end, and the merge/summary
\* step is reached only with every submitted unit executed and collected.
C2_UnitExceptionNeverAborts ==
    /\ pc # "aborted"
    /\ (pc # "done" => ENABLED Next)
    /\ (pc \in {"merge", "done"} /\ tickers # <<>> =>
            /\ Units = 1..Len(tickers)
            /\ collected = Units
            /\ \A u \in Units : upc[u] \in DonePcs)

\* C2 witness: a technical-analysis run ended with its summary printed,
\* one unit having raised and another unit's table written.
C2_Witness ==
    /\ IsTA /\ pc = "done" /\ summary # <<>>
    /\ \E u, v \in Units : /\ upc[u] = "raised"
                            /\ upc[v] = "ret_df"
                            /\ OutputHas(v)

\* Worker positions between acquiring and releasing progress_lock.
CriticalPcs == {"f_load", "f_store", "f_unlock",
                "s_loadp", "s_storep", "s_loads", "s_stores", "s_unlock"}

\* Worker positions after the store of `processed_count += 1`.
AfterProcessedStore == {"f_unlock", "ret_none", "s_loads", "s_stores", "s_unlock", "ret_df"}

\* Worker positions after the store of `success_count += 1`.
AfterSuccessStore == {"s_unlock", "ret_df"}

\* C3: in the technical-analysis run a worker is inside a counter update
\* only while it holds progress_lock, and no increment is lost: each
\* counter equals the number of increments performed on it so far.
C3_NoLostIncrement ==
    IsTA =>
        /\ \A u \in Units : upc[u] \in CriticalPcs => progress_lock = u
        /\ processed_count = Cardinality({u \in Units : upc[u] \in AfterProcessedStore})
        /\ success_count = Cardinality({u \in Units : upc[u] \in AfterSuccessStore})

\* C3 witness: one worker is between the load and the store of
\* processed_count while another worker waits for the lock, and an earlier
\* increment has already been performed.
C3_Witness ==
    /\ IsTA
    /\ processed_count >= 1
    /\ \E u, v \in Units : /\ upc[u] \in {"f_store", "s_storep"}
                            /\ upc[v] \in {"f_lock", "s_lock"}

\* C4: when a technical-analysis run ends, processed_count equals the number
\* of tickers submitted and success_count the number of tables merged.
C4_CountsMatchRun ==
    IsTA /\ RunEnded =>
        /\ processed_count = Len(tickers)
        /\ success_count = Len(all_dfs)

\* C5: the technical-analysis output file is written at most once per run,
\* by the main thread, and only once every submitted unit has finished.
C5_SingleWriteAfterPool ==
    /\ Len(writes) <= 1
    /\ \A i \in DOMAIN writes : writes[i] = "main"
    /\ (writes # <<>> \/ arrow_file # <<>> =>
            /\ Units = 1..Len(tickers)
            /\ \A u \in Units : upc[u] \in DonePcs)

\* C5 witness: the file has been written with the tables of two units while
\* a third unit of the run failed.
C5_Witness ==
    /\ writes = <<"main">>
    /\ arrow_file # <<>> /\ Len(arrow_file[1]) >= 2
    /\ \E u \in Units : upc[u] \in {"ret_none", "raised"}

(* ---------------------------- converters -------------------------------- *)

IsConvert == script = "convert_to_arrow"

IsRatios == script = "convert_ratios_to_arrow"

\* The run found nothing to work on: an empty listing, or no input document.
NoInput ==
    IF IsTA \/ IsCompany THEN tickers = <<>> ELSE total_files = 0

NoBulkOutput ==
    /\ arrow_file = <<>>
    /\ company_files = <<>>
    /\ out_files = <<>>

\* C6: a run that cannot obtain its universe, or finds no input documents,
\* ends with a non-zero exit status and has written no bulk output.
C6_NoInputAbortsNonZero ==
    (pc = "done" /\ NoInput) => (exit_code > 0 /\ NoBulkOutput)

\* The convert_to_arrow run went through its write loop.
Written == IsConvert /\ pc = "done" /\ exit_code = 0

PartitionsOf(rt) == {p \in DOMAIN out_files : p[1] = rt}

RowsWritten(rt) == SumLens(out_files, PartitionsOf(rt))

\* The first four characters of a string, character by character.
First4(x) == [k \in 1..4 |-> SubSeq(x, k, k)]

SameFirst4(x, y) == Len(x) >= 4 /\ Len(y) >= 4 /\ First4(x) = First4(y)

\* The records of a sequence whose period is non-empty and starts with the
\* characters of y.
InYear(recs, y) ==
    SelectSeq(recs, LAMBDA r : r.period # "" /\ SameFirst4(r.period, y))

YearKeys(recs) ==
    {SubSeq(recs[i].period, 1, 4) : i \in {j \in DOMAIN recs : recs[j].period # ""}}

\* Building one table from the rows does not raise: their tickers have one type.
OneTickerType(rows) == \A i, j \in DOMAIN rows : rows[i].ticker.t = rows[j].ticker.t

\* C7 as stated: every accumulated record of a report type is in exactly one
\* written year partition, so the partitions' row counts sum to the number of
\* accumulated records and no two partitions share a record.
C7_EveryRecordInOnePartition ==
    Written =>
        \A rt \in Range(ReportTypes) :
            /\ RowsWritten(rt) = Len(data_by_type[rt])
            /\ \A p, q \in PartitionsOf(rt) :
                 p # q => Range(out_files[p]) \cap Range(out_files[q]) = {}

\* C7 amended: the accumulated records with a non-empty period are split by
\* year; a year whose table can be built is written with exactly its records,
\* in order, a year whose table cannot be built is not written, nothing else
\* is written, and no record is in two partitions.
C7_NonEmptyPeriodsPartitioned ==
    Written =>
        \A rt \in Range(ReportTypes) :
            LET recs == data_by_type[rt]
                built == {y \in YearKeys(recs) : OneTickerType(InYear(recs, y))}
            IN  /\ PartitionsOf(rt) = {<<rt, y>> : y \in built}
                /\ \A y \in built : out_files[<<rt, y>>] = InYear(recs, y)
                /\ RowsWritten(rt) =
                     Cardinality({i \in DOMAIN recs :
                                    /\ recs[i].period # ""
                                    /\ SubSeq(recs[i].period, 1, 4) \in built})
                /\ \A p, q \in PartitionsOf(rt) :
                     p # q => Range(out_files[p]) \cap Range(out_files[q]) = {}

\* Two records of one report type went to two year partitions.
C7_Witness ==
    /\ Written
    /\ \E rt \in Range(ReportTypes) :
         /\ Len(data_by_type[rt]) = 2
         /\ Cardinality(PartitionsOf(rt)) = 2
         /\ RowsWritten(rt) = 2

\* A period string that begins with a four-digit year.
ValidPeriod(x) == Len(x) >= 4 /\ IsDigits(SubSeq(x, 1, 4))

\* C8: a record with a valid period is assigned to the partition whose year
\* is the first four characters of the period, and records with the same
\* period are assigned to the same year.
C8_YearIsPeriodPrefix ==
    (IsConvert /\ pc \in {"write", "done"}) =>
        \A rt \in Range(ReportTypes) :
            LET g == GroupByYear(data_by_type[rt])
            IN  /\ \A y \in DOMAIN g : \A i \in DOMAIN g[y] :
                     ValidPeriod(g[y][i].period) =>
                        Len(y) = 4 /\ First4(y) = First4(g[y][i].period)
                /\ \A y, z \in DOMAIN g : \A i \in DOMAIN g[y], j \in DOMAIN g[z] :
                     g[y][i].period = g[z][j].period => y = z
                /\ \A i \in DOMAIN data_by_type[rt] :
                     ValidPeriod(data_by_type[rt][i].period) =>
                        \E y \in DOMAIN g : data_by_type[rt][i] \in Range(g[y])
                /\ Written =>
                     \A p \in PartitionsOf(rt) : out_files[p] = g[p[2]]

\* The file of year 2023 holds a yearly and a quarterly record of that year.
C8_Witness ==
    /\ Written
    /\ \E p \in DOMAIN out_files :
         /\ p[2] = "2023"
         /\ \E i, j \in DOMAIN out_files[p] :
              out_files[p][i].period = "2023" /\ out_files[p][j].period = "2023Q4"

\* The document's identifier entry is absent, null or the empty string.
LacksIdentifier(v) == v \in {Missing, Null, StrV("")}

\* A step of the file loop that opens a document.
OpensDoc == pc = "next_doc" /\ file_idx < total_files /\ cur_ticker' \in TickerVals

\* C9: a document that loads but lacks its ticker / symbol is passed over: no
\* record is added, no exception is raised, and the loop stands at the next
\* document.
C9_NoIdentifierSkipsDoc ==
    [][(OpensDoc /\ doc_outcome' # "load_error" /\ LacksIdentifier(cur_ticker'))
          => /\ doc_outcome' = "no_ticker"
             /\ pc' = "next_doc"
             /\ file_idx' = file_idx + 1
             /\ exit_code' = exit_code
             /\ data_by_type' = data_by_type
             /\ records' = records]_vars

\* The first document had no identifier and added nothing; the second one was
\* processed and added every record there is.
C9_Witness ==
    /\ file_idx = 2
    /\ no_ticker_docs = 1
    /\ doc_outcome = "ok"
    /\ doc_added >= 1
    /\ Accumulated = doc_added

\* C10: a document whose processing raised has contributed no record.
C10_RaisingDocContributesNothing ==
    doc_outcome \in {"raised", "load_error"} => doc_added = 0

(* ================== claims: the normalizers' records =================== *)

NzPeriodObjectDone == script = "convert_to_arrow" /\ nz_pc = "emitted"

NzRatioItemDone == script = "convert_ratios_to_arrow" /\ nz_pc = "emitted"

\* An int or float, or a string that parses to a float.
NumberOrNumericString(v) ==
    v.t \in {"int", "float", "bigint"} \/ (v.t = "str" /\ IsDigits(v.s))

\* A boolean, a non-numeric string, an array or an object.
OtherJsonType(v) ==
    v.t \in {"bool", "list", "dict"} \/ (v.t = "str" /\ v.s # "" /\ ~IsDigits(v.s))

\* The non-excluded (key, value) pairs of the ratios item handed in.
NzMetrics ==
    LET pairs == PairsOf(nz_input.elem)
    IN  {pairs[i] : i \in {j \in DOMAIN pairs : pairs[j][1] \notin exclude_keys}}

\* C11: a (field, value) pair gives an output value only if the value is an
\* int, a float or a numeric string; every emitted value is a float; a
\* boolean, non-numeric string, array or object gives no output value.
C11_OnlyNumbersEmitted ==
    /\ NzPeriodObjectDone =>
         LET items == Range(ItemsOf(nz_input.elem))
             recs == Range(nz_result.recs)
         IN  /\ \A r \in recs :
                  /\ r.value.t = "float"
                  /\ \E it \in items : it[1] = r.field /\ NumberOrNumericString(it[2])
             /\ \A it \in items :
                  OtherJsonType(it[2]) => \A r \in recs : r.field # it[1]
    /\ (NzRatioItemDone /\ ~nz_result.raised) =>
         \A m \in NzMetrics :
             /\ FinalKey(m[1]) \in DOMAIN nz_result.rec
                  => nz_result.rec[FinalKey(m[1])].t = "float"
             /\ (/\ OtherJsonType(m[2])
                 /\ \A o \in NzMetrics : FinalKey(o[1]) = FinalKey(m[1]) => o = m)
                  => FinalKey(m[1]) \notin DOMAIN nz_result.rec

\* C12: in a ratios record every non-excluded key of the item whose value is
\* null or the empty string is present under its mapped name with value 0.0.
C12_NullOrEmptyIsZero ==
    (NzRatioItemDone /\ ~nz_result.raised) =>
        \A m \in NzMetrics :
            m[2] \in {Null, StrV("")} =>
                /\ FinalKey(m[1]) \in DOMAIN nz_result.rec
                /\ nz_result.rec[FinalKey(m[1])] = FloatV(0)

\* The bookkeeping keys of a period object.
BookkeepingKeys ==
    {"organCode", "ticker", "createDate", "updateDate", "yearReport",
     "quarterReport", "serverDateTime", "status", "message", "code", "msg",
     "exception", "successful"}

\* C13: no record of a period object, yearly or quarterly, is named after a
\* bookkeeping key, and every other int or float field of the object gives
\* exactly one record.
C13_OneDenyList ==
    (NzPeriodObjectDone /\ ~nz_result.raised) =>
        LET items == Range(ItemsOf(nz_input.elem))
            recs == nz_result.recs
        IN  /\ \A i \in DOMAIN recs : recs[i].field \notin BookkeepingKeys
            /\ \A it \in items :
                 (it[1] \notin BookkeepingKeys /\ it[2].t \in {"int", "float"}) =>
                     Cardinality({i \in DOMAIN recs : recs[i].field = it[1]}) = 1

FlatKeys == {"ticker", "period", "field", "value"}

RatioBaseKeys == {"ticker", "year", "quarter", "ratio_type"}

C15_UniqueRowKeys ==
    /\ (IsTA /\ arrow_file # <<>>) =>
         \A i, j \in DOMAIN arrow_file[1] :
             i # j => tickers[arrow_file[1][i]] # tickers[arrow_file[1][j]]
    /\ Written =>
         \A rt \in Range(ReportTypes) :
             \A i, j \in DOMAIN data_by_type[rt] :
                 i # j =>
                     LET a == data_by_type[rt][i]
                         b == data_by_type[rt][j]
                     IN  <<a.ticker, a.period, a.field>> # <<b.ticker, b.period, b.field>>

\* The keys of all the rows.
KeysOf(rows) == UNION {DOMAIN rows[i] : i \in DOMAIN rows}

\* Reading the table back gives the rows: as many, with every key of any of
\* them as a column, and every value as it was.
ReadsBackAs(table, rows) ==
    /\ Len(table) = Len(rows)
    /\ \A i \in DOMAIN table :
         /\ DOMAIN table[i] = KeysOf(rows)
         /\ \A c \in DOMAIN rows[i] : table[i][c] = rows[i][c]

\* C16: every file written reads back with the row count of its partition's
\* records, the union of their keys as columns, and their values unchanged.
C16_RoundTrip ==
    /\ (IsRatios /\ pc = "done" /\ <<"ratios_data.arrow">> \in DOMAIN out_files) =>
         ReadsBackAs(out_files[<<"ratios_data.arrow">>], records)
    /\ Written =>
         \A p \in DOMAIN out_files :
             ReadsBackAs(out_files[p], InYear(data_by_type[p[1]], p[2]))

(* =================== claims: the indicator computation ================= *)

\* Units whose indicators come from the manual subset.
UsedFallback == {u \in Units : ind_set[u] \in {"manual", "manual_partial"}}

\* Units whose manual computation raised.
ManualFailed == {u \in Units : ind_set[u] = "manual_partial"}

\* C17: the fallback is never taken, and never fails, without a printed line:
\* a missing library is announced once at import, every unit that fell back
\* because the library computation raised has its own line saying that the
\* manual calculation is used, every unit whose manual computation raised has
\* its own failure line, and no such line is printed for any other unit.
C17_FallbackIsFlagged ==
    IsTA =>
        /\ log[ImportNotice] = IF has_pandas_ta THEN 0 ELSE 1
        /\ log[LibraryFailedLine] = IF has_pandas_ta THEN Cardinality(UsedFallback) ELSE 0
        /\ log[ManualFailedLine] = Cardinality(ManualFailed)
        /\ UsedFallback # {} => log[ImportNotice] + log[LibraryFailedLine] >= 1

\* A finished run in which the library computed one merged ticker and raised
\* for another, whose manual computation raised as well.
C17_Witness ==
    /\ IsTA /\ pc = "done" /\ has_pandas_ta
    /\ \E u, v \in Range(all_dfs) :
         ind_set[u] = "full" /\ ind_set[v] = "manual_partial"
    /\ log[LibraryFailedLine] >= 1
    /\ log[ManualFailedLine] >= 1

\* Units for which an indicator computation raised: the library's (the unit
\* then fell back although the library is there) or the manual one.
IndicatorRaised ==
    {u \in Units : \/ has_pandas_ta /\ ind_set[u] \in {"manual", "manual_partial"}
                   \/ ind_set[u] = "manual_partial"}

\* The units whose rows are in the written table.
MergedUnits == IF arrow_file = <<>> THEN {} ELSE Range(arrow_file[1])

\* C18: a ticker whose indicator computation raised is dropped: it is not
\* among the frames collected, and has no rows in the written table.
C18_IndicatorErrorDropsTicker ==
    IsTA =>
        \A u \in IndicatorRaised : u \notin Range(all_dfs) /\ u \notin MergedUnits

\* Units whose fetch failed or gave an empty candle series.
NothingFetched == {u \in Units : price_data[u] \in {"none", "empty"}}

\* C19: a ticker whose fetch failed or whose series is empty is never among
\* the frames collected and has no row in the written table; the table holds
\* the frames of the units that returned one, and nothing else.
C19_FailedFetchContributesNothing ==
    IsTA =>
        /\ \A u \in NothingFetched : u \notin Range(all_dfs) /\ u \notin MergedUnits
        /\ \A u \in NothingFetched : upc[u] \in DonePcs => upc[u] = "ret_none"
        /\ MergedUnits \subseteq {u \in Units : price_data[u] = "candles"}
        /\ pc = "done" =>
             MergedUnits = {u \in Units : price_data[u] = "candles"}

\* A finished run with a failed fetch, an empty series and a merged ticker.
C19_Witness ==
    /\ IsTA /\ pc = "done"
    /\ \E u, v, w \in Units :
         /\ price_data[u] = "none"
         /\ price_data[v] = "empty"
         /\ price_data[w] = "candles"
         /\ MergedUnits = {w}

(* ==================== claims: the indicator values ===================== *)

RECURSIVE SumOf(_, _, _)
SumOf(s, from, to) == IF from > to THEN 0 ELSE s[from] + SumOf(s, from + 1, to)

\* C20: the closes are the candles' closes in date order (the k-th close is
\* that of the candle dated k); the SMA is null at
\* each of the first w-1 bars and at any later bar is the arithmetic mean of
\* the last w closes; for closes 10, 12, 11, 13, 14 SMA(3) at the last bar is
\* (11 + 13 + 14) / 3.
C20_SmaIsWindowMean ==
    pc \in {"rolling", "computed"} =>
        /\ Len(closes) = Len(candles)
        /\ \A a \in DOMAIN candles : closes[candles[a].date] = candles[a].close
        /\ \A i \in DOMAIN sma_out :
             IF i < window
             THEN sma_out[i] = NaN
             ELSE /\ ~sma_out[i].nan
                  /\ sma_out[i].den > 0
                  /\ sma_out[i].num * window
                       = SumOf(closes, i - window + 1, i) * sma_out[i].den
        /\ pc = "computed" => Len(sma_out) = Len(closes)
        /\ (pc = "computed" /\ closes = <<10, 12, 11, 13, 14>> /\ window = 3) =>
             sma_out[5].num * 3 = (11 + 13 + 14) * sma_out[5].den

\* The rolling pass over closes 10, 12, 11, 13, 14 fetched newest first.
C20_Witness ==
    /\ pc = "computed"
    /\ window = 3
    /\ closes = <<10, 12, 11, 13, 14>>
    /\ candles[1].date = 5
    /\ sma_out[1] = NaN /\ sma_out[2] = NaN
    /\ sma_out[5] = Quot(38, 3)


(* ===================== claims: the indicator columns =================== *)

\* The candle with the latest date of the fetched list.
LatestCandle == CHOOSE b \in Range(candles) : \A o \in Range(candles) : o.date <= b.date

\* The row i of the output frame holds the number num / den in column c.
RowHolds(i, c, num, den) ==
    /\ c \in DOMAIN df
    /\ REq(df[c][i], Quot(num, den))

\* C21: the pivot levels are those of the last bar of the date-sorted series
\* alone, pivot = (H+L+C)/3, S1 = 2*pivot - H, R1 = 2*pivot - L,
\* S2 = pivot - (H-L), R2 = pivot + (H-L), S3 = L - 2*(H - pivot),
\* R3 = H + 2*(pivot - L), and every output row of the ticker carries the same
\* seven values; H = 110, L = 90, C = 100 gives pivot 100, R1 110, S1 90.
C21_PivotFromLastBar ==
    pc = "renamed" =>
        LET H == LatestCandle.high
            L == LatestCandle.low
            C == LatestCandle.close
            P3 == H + L + C          \* three times the pivot
        IN  /\ Len(df["date"]) = Len(candles)
            /\ \A i \in DOMAIN candles :
                 /\ RowHolds(i, "pivot", P3, 3)
                 /\ RowHolds(i, "support_1", 2 * P3 - 3 * H, 3)
                 /\ RowHolds(i, "resistance_1", 2 * P3 - 3 * L, 3)
                 /\ RowHolds(i, "support_2", P3 - 3 * (H - L), 3)
                 /\ RowHolds(i, "resistance_2", P3 + 3 * (H - L), 3)
                 /\ RowHolds(i, "support_3", 3 * L - 2 * (3 * H - P3), 3)
                 /\ RowHolds(i, "resistance_3", 3 * H + 2 * (P3 - 3 * L), 3)
                 /\ (H = 110 /\ L = 90 /\ C = 100 =>
                       /\ RowHolds(i, "pivot", 100, 1)
                       /\ RowHolds(i, "resistance_1", 110, 1)
                       /\ RowHolds(i, "support_1", 90, 1))

\* A series fetched newest first whose latest bar is H = 110, L = 90, C = 100
\* and whose other bars differ from it has pivot 100 on its first output row.
C21_Witness ==
    /\ pc = "renamed"
    /\ Len(candles) = 3
    /\ candles[1].date = 3
    /\ candles[1].high = 110 /\ candles[1].low = 90 /\ candles[1].close = 100
    /\ candles[2].high = 90
    /\ candles[3].high = 110 /\ candles[3].low = 100
    /\ RowHolds(1, "pivot", 100, 1)
    /\ RowHolds(3, "resistance_1", 110, 1)

\* The frame's closes as the rising and falling moves from each row's
\* previous row; the first row has neither.
UpMove(i) == IF i > 1 /\ df["close"][i] > df["close"][i - 1]
             THEN df["close"][i] - df["close"][i - 1] ELSE 0

DownMove(i) == IF i > 1 /\ df["close"][i] < df["close"][i - 1]
               THEN df["close"][i - 1] - df["close"][i] ELSE 0

RECURSIVE SumOver(_, _)
SumOver(f, S) ==
    IF S = {} THEN 0
    ELSE LET i == CHOOSE x \in S : TRUE IN f[i] + SumOver(f, S \ {i})

\* Sums of the rising and of the falling moves of the window ending at row i.
GainSum(i) == SumOver([j \in DOMAIN df["close"] |-> UpMove(j)], WindowAt(i, window))

LossSum(i) == SumOver([j \in DOMAIN df["close"] |-> DownMove(j)], WindowAt(i, window))

\* C22: wherever the RSI is defined it lies in [0, 100]; a window whose
\* average loss is 0 gives no error but the saturated value 100 when its
\* average gain is positive, and no infinite or out-of-range RSI is in the
\* frame that process_ticker returns.
C22_RsiBounded ==
    /\ pc \in {"rename", "returned"} =>
         \A i \in DOMAIN df["RSI_14"] :
            LET v == df["RSI_14"][i]
            IN  /\ ~v.nan => /\ v.den > 0
                             /\ 0 <= v.num
                             /\ v.num <= 100 * v.den
                /\ (i >= window /\ LossSum(i) = 0 /\ GainSum(i) > 0) =>
                      REq(v, Quot(100, 1))
                /\ (i >= window /\ LossSum(i) > 0) =>
                      REq(v, Quot(100 * GainSum(i), GainSum(i) + LossSum(i)))
    /\ pc = "returned" =>
         \A i \in DOMAIN df["RSI_14"] : ~IsInf(df["RSI_14"][i])

\* A series that only rises over a full window: its average loss is 0 and its
\* RSI is 100 in the returned frame; an earlier row has no RSI yet.
C22_Witness ==
    /\ pc = "returned"
    /\ Len(candles) = 4
    /\ df["close"] = <<10, 11, 11, 12>>
    /\ LossSum(4) = 0
    /\ GainSum(4) = 2
    /\ REq(df["RSI_14"][4], Quot(100, 1))
    /\ df["RSI_14"][2].nan

(* ======================= claims: progress lines ======================== *)

\* Units the run has processed so far: processed_count in
\* fetch_technical_analysis, the loop index idx in fetch_company_vietcap.
ProcessedUnits == IF IsTA THEN processed_count ELSE Cardinality(collected)

\* Progress lines printed for the unit count k.
ProgressLinesAt(k) == Cardinality({j \in DOMAIN progress : progress[j] = k})

\* C23: progress is printed at a fixed cadence: each time the number of
\* processed units reaches a multiple of the cadence exactly one progress line
\* is printed, whether the unit that reached it succeeded or failed.
C23_ProgressAtEveryMultiple ==
    pc = "done" =>
        /\ \A k \in 1..ProcessedUnits : ProgressDue(k) => ProgressLinesAt(k) = 1
        /\ \A j \in DOMAIN progress : ProgressDue(progress[j])

(* ======================== claims: the worker pool ====================== *)

\* A step keeps every unit on its single pass: a unit that has left the
\* queue does not go back to it, and a unit that has finished stays as it
\* finished.
SinglePass ==
    \A u \in DOMAIN upc :
        /\ upc[u] # "queued" => upc'[u] # "queued"
        /\ upc[u] \in DonePcs => upc'[u] = upc[u]

\* C24: at every moment at most max_workers units are being executed, however
\* many were submitted, and every submitted unit has been executed, once,
\* when the run is past the pool.
C24_BoundedPool ==
    /\ [](Cardinality(Running) <= PoolSize)
    /\ [](pc \in {"merge", "done"} /\ tickers # <<>> =>
            /\ DOMAIN upc = 1..Len(tickers)
            /\ \A u \in Units : upc[u] \in DonePcs)
    /\ [][SinglePass]_vars

\* The pool is saturated: max_workers units run while another one waits.
C24_Witness ==
    /\ Cardinality(Running) = PoolSize
    /\ \E u \in Units : upc[u] = "queued"
    /\ Len(tickers) > PoolSize

(* ===================== claims: the ratios key mapping ================== *)

\* An upstream value that is a number.
IsNumber(v) == v.t \in {"int", "float"}

\* The name the claim gives a non-excluded upstream key: its entry in the
\* lookup table, or the key itself.
OutputName(key) == IF key \in DOMAIN key_map THEN key_map[key] ELSE key

\* C25: every non-excluded key of a ratios item that is in the lookup table
\* is emitted under its mapped name and every other non-excluded key under
\* its own name, so that no non-excluded numeric field of the item is lost.
C25_MappedOrPassedThrough ==
    (NzRatioItemDone /\ ~nz_result.raised) =>
        \A m \in NzMetrics :
            IsNumber(m[2]) =>
                /\ OutputName(m[1]) \in DOMAIN nz_result.rec
                /\ nz_result.rec[OutputName(m[1])] = FloatV(m[2].n)

(* ===================== claims: the psychological line ================== *)

\* The rows of the window ending at row i whose close is above the previous
\* row's close; the first row has no previous row.
UpRows(i) ==
    {j \in WindowAt(i, window) : j > 1 /\ df["close"][j] > df["close"][j - 1]}

\* C26: from the row that completes the first window on, PSY is 100*k/w, k
\* being the rows of the trailing window whose close is strictly above the
\* previous row's close (the first row never counts); before that it is
\* null; it always lies in [0, 100].
C26_PsyIsUpCloseShare ==
    pc = "returned" =>
        /\ "psy" \in DOMAIN df
        /\ \A i \in DOMAIN df["psy"] :
             LET v == df["psy"][i]
             IN  /\ i < window => v.nan
                 /\ i >= window =>
                      /\ REq(v, Quot(100 * Cardinality(UpRows(i)), window))
                      /\ v.den > 0
                      /\ 0 <= v.num
                      /\ v.num <= 100 * v.den

\* A series with a flat step and the first row inside the first window: the
\* first window has one up-close out of three rows, the next has two.
C26_Witness ==
    /\ pc = "returned"
    /\ script = "fetch_technical_analysis"
    /\ window = PsyLength
    /\ Len(candles) >= 4
    /\ df["close"][1] = 10 /\ df["close"][2] = 10
    /\ df["close"][3] = 11 /\ df["close"][4] = 12
    /\ candles[1].date = Len(candles)
    /\ df["psy"][2].nan
    /\ REq(df["psy"][3], Quot(100, window))
    /\ REq(df["psy"][4], Quot(200, window))

(* ================= claims: the ratios scripts in sequence ============== *)

\* The first conversion of the sequence wrote ratios_data.arrow.
FirstConversionWrote == Len(history) >= 1 /\ history[1].result = "True"

\* The second conversion of the sequence is running or has ended.
InSecondConversion == Len(history) = 2 /\ script = "convert_ratios_to_arrow"

\* C27: partition_ratios removes every *.json file of the directory
\* convert_ratios_to_arrow reads; so in the sequence conversion,
\* partition_ratios, conversion with nothing fetched in between, the second
\* conversion finds no document, returns False and leaves the
\* ratios_data.arrow written by the first one as it is.
C27_PartitionEmptiesConverterInput ==
    /\ [](script = "partition_ratios" /\ pc \in {"write_years", "report"}
            => ratios_json = 0)
    /\ []((InSecondConversion /\ FirstConversionWrote) =>
            /\ history[2].script = "partition_ratios"
            /\ ratios_json = 0
            /\ INPUT_FILE \in DOMAIN out_files
            /\ pc = "done" => /\ cr_result = "False"
                              /\ total_files = 0
                              /\ records = <<>>)
    /\ [][(InSecondConversion /\ FirstConversionWrote) => out_files' = out_files]_vars

\* The second conversion has returned False after a first one that read two
\* documents and wrote the file, which partition_ratios split by year.
C27_Witness ==
    /\ InSecondConversion
    /\ FirstConversionWrote
    /\ history[2].result = "ok"
    /\ pc = "done"
    /\ cr_result = "False"
    /\ Len(out_files[INPUT_FILE]) >= 2
    /\ <<"ratios", "2023">> \in DOMAIN out_files

(* ======================= claims: the retry loop ======================== *)

\* The attempts before the last one of a call all raised.
EarlierAttemptsRaised(c) ==
    \A k \in 1..(Len(c.outcomes) - 1) : c.outcomes[k] = "raise"

\* C28: fetch_exchange_data ends after at most 3 attempts without letting an
\* exception out: it returns what the first attempt that does not raise gave,
\* an empty result included; it sleeps 2^attempt seconds after a failed first
\* or second attempt and not otherwise; it returns an empty table when all 3
\* attempts raised.
C28_RetryThenEmpty ==
    \A ex \in DOMAIN fx :
        LET c == fx[ex]
            n == Len(c.outcomes)
        IN  /\ n <= 3
            /\ EarlierAttemptsRaised(c)
            /\ c.slept = [k \in 1..Len(c.slept) |-> Pow2(k - 1)]
            /\ Len(c.slept) <= 2
            /\ Len(c.slept) = IF c.pc = "try" THEN n ELSE n - 1
            /\ c.pc = "returned" =>
                 /\ n >= 1
                 /\ c.result \in {"table", "empty"}
                 /\ c.outcomes[n] = "rows" => c.result = "table"
                 /\ c.outcomes[n] = "empty" => c.result = "empty"
                 /\ c.outcomes[n] = "raise" => n = 3 /\ c.result = "empty"

\* One call returned an empty table after three failed attempts and sleeps of
\* 1 and 2 seconds, another returned the empty frame of its first attempt, and
\* the third the rows of its second attempt.
C28_Witness ==
    /\ DOMAIN fx = Exchanges
    /\ fx["HOSE"].pc = "returned"
    /\ fx["HOSE"].outcomes = <<"raise", "raise", "raise">>
    /\ fx["HOSE"].slept = <<1, 2>>
    /\ fx["HOSE"].result = "empty"
    /\ fx["HNX"].pc = "returned"
    /\ fx["HNX"].outcomes = <<"empty">>
    /\ fx["HNX"].slept = <<>>
    /\ fx["UPCOM"].pc = "returned"
    /\ fx["UPCOM"].outcomes = <<"raise", "rows">>
    /\ fx["UPCOM"].result = "table"

\* A non-excluded pair of the item that the copying loop writes into the
\* record: a null or empty value, or one float() accepts.
IsCopied(m) == m[2] \in {Null, StrV("")} \/ PyFloat(m[2]).ok

\* C29: in every ratios record ticker, year, quarter and ratio_type hold the
\* values derived from the document's symbol and the item's year, quarter and
\* ratioType, and distinct non-excluded keys of the item give distinct
\* columns: no copied metric overwrites a base field or another metric.
C29_BaseFieldsKeptColumnsDistinct ==
    (NzRatioItemDone /\ ~nz_result.raised) =>
        LET rec == nz_result.rec
            item == nz_input.elem
        IN  /\ rec["ticker"] = nz_input.ticker
            /\ rec["year"] = StrV(PyStr(item.year))
            /\ rec["quarter"] = (IF item.quarter = Missing THEN IntV(0) ELSE item.quarter)
            /\ rec["ratio_type"] = item.ratioType
            /\ \A m \in NzMetrics :
                 IsCopied(m) =>
                    /\ OutputName(m[1]) \notin RatioBaseKeys
                    /\ \A o \in NzMetrics :
                         (IsCopied(o) /\ o[1] # m[1]) => OutputName(o[1]) # OutputName(m[1])

(* ================== claims: the outcome counters ======================= *)

IsFunds == script = "fetch_funds_hybrid"

\* The pool of fetch_company_vietcap.main has been left (lines 214 on).
CompanyPoolFinished == IsCompany /\ pc \in {"merge", "done"} /\ tickers # <<>>

\* The loop of fetch_funds_hybrid.main has gone through every fund code
\* (lines 176 on).
FundLoopFinished ==
    /\ IsFunds
    /\ fh.pc \in {"loop", "saved", "except", "returned"}
    /\ fh.fund_codes > 0
    /\ fh.idx = fh.fund_codes

\* The calls made to a source for a fund, as places in the order of calls.
CallsFor(fund_code, source) ==
    {i \in 1..Len(fh.calls) : fh.calls[i].fund = fund_code /\ fh.calls[i].source = source}

\* vnstock is asked about a fund only straight after fmarket gave nothing
\* for that fund.
VnstockOnlyAfterFmarketNone ==
    \A i \in 1..Len(fh.calls) :
        fh.calls[i].source = "vnstock" =>
            /\ i > 1
            /\ fh.calls[i - 1].source = "fmarket"
            /\ fh.calls[i - 1].fund = fh.calls[i].fund
            /\ ~fh.calls[i - 1].got

\* C30: every unit of a run is counted in exactly one outcome counter. Once
\* fetch_company_vietcap has left its pool, success_count + fail_count is the
\* number of stocks submitted; once fetch_funds_hybrid has finished its loop,
\* fmarket_success + vnstock_fallback + fail_count is the number of fund
\* codes and the total_funds written is fmarket_success + vnstock_fallback;
\* and vnstock is consulted for a fund only after fmarket returned nothing
\* for it.
C30_EachUnitCountedOnce ==
    /\ CompanyPoolFinished => success_count + fail_count = Len(tickers)
    /\ FundLoopFinished =>
           fh.fmarket_success + fh.vnstock_fallback + fh.fail_count = fh.fund_codes
    /\ (IsFunds /\ fh.output # <<>>) =>
           /\ FundLoopFinished
           /\ fh.output.total_funds = fh.fmarket_success + fh.vnstock_fallback
           /\ fh.output.data_sources.fmarket = fh.fmarket_success
           /\ fh.output.data_sources.vnstock = fh.vnstock_fallback
    /\ IsFunds => VnstockOnlyAfterFmarketNone

\* A fund run that saved its file after one fund came from fmarket, one from
\* vnstock and one from neither.
C30_Witness ==
    /\ IsFunds
    /\ fh.output # <<>>
    /\ fh.fund_codes = 3
    /\ fh.fmarket_success = 1
    /\ fh.vnstock_fallback = 1
    /\ fh.fail_count = 1
    /\ CallsFor(3, "vnstock") # {}

\* A company run that left its pool with a success and a failure counted.
C30_CompanyWitness ==
    /\ CompanyPoolFinished
    /\ success_count >= 1
    /\ fail_count >= 1
====
